---- MODULE Spec2Model ----
(***************************************************************************)
(* Proposal data synchronisation layer of the QCI front end: the create,   *)
(* update, status-change and link mutations (src/src/hooks), the client    *)
(* query cache they patch and invalidate, and the registry / content store *)
(* they call.                                                              *)
(***************************************************************************)
EXTENDS Integers, Sequences, FiniteSets, TLC

(***************************************************************************)
(* Bounds                                                                  *)
(***************************************************************************)
\* number of mutations one behaviour starts
MaxOps == 1
\* proposals that exist in the registry before the first mutation
NumQCI == 2

(***************************************************************************)
(* Error messages and the patterns the hooks match on them.  A message is  *)
(* a sequence of characters so that includes() and toLowerCase() are       *)
(* computed and not assumed.                                               *)
(***************************************************************************)
\* "User rejected the request."
MsgUserRejected ==
    <<"U","s","e","r"," ","r","e","j","e","c","t","e","d"," ","t","h","e"," ","r","e","q","u","e","s","t",".">>
\* "User denied transaction signature."
MsgUserDenied ==
    <<"U","s","e","r"," ","d","e","n","i","e","d"," ","t","r","a","n","s","a","c","t","i","o","n"," ","s","i","g","n","a","t","u","r","e",".">>
\* "user rejected transaction"
MsgUserRejectedLower ==
    <<"u","s","e","r"," ","r","e","j","e","c","t","e","d"," ","t","r","a","n","s","a","c","t","i","o","n">>
\* "AccessControl: missing role"
MsgAccessControl ==
    <<"A","c","c","e","s","s","C","o","n","t","r","o","l",":"," ","m","i","s","s","i","n","g"," ","r","o","l","e">>
\* "execution reverted"
MsgReverted ==
    <<"e","x","e","c","u","t","i","o","n"," ","r","e","v","e","r","t","e","d">>
\* "Failed to fetch"
MsgNetwork ==
    <<"F","a","i","l","e","d"," ","t","o"," ","f","e","t","c","h">>
\* "user rejected"
PatUserRejected ==
    <<"u","s","e","r"," ","r","e","j","e","c","t","e","d">>
\* "User denied"
PatUserDenied ==
    <<"U","s","e","r"," ","d","e","n","i","e","d">>
\* "User cancelled"
PatUserCancelled ==
    <<"U","s","e","r"," ","c","a","n","c","e","l","l","e","d">>
\* "rejected"
PatRejected ==
    <<"r","e","j","e","c","t","e","d">>
\* "AccessControl"
PatAccessControl ==
    <<"A","c","c","e","s","s","C","o","n","t","r","o","l">>
\* "Transaction cancelled"
TxtTransactionCancelled ==
    <<"T","r","a","n","s","a","c","t","i","o","n"," ","c","a","n","c","e","l","l","e","d">>
\* "You do not have permission to update this status"
TxtNoPermission ==
    <<"Y","o","u"," ","d","o"," ","n","o","t"," ","h","a","v","e"," ","p","e","r","m","i","s","s","i","o","n"," ","t","o"," ","u","p","d","a","t","e"," ","t","h","i","s"," ","s","t","a","t","u","s">>
\* "Failed to update status"
TxtFailedToUpdate ==
    <<"F","a","i","l","e","d"," ","t","o"," ","u","p","d","a","t","e"," ","s","t","a","t","u","s">>

\* "Operation timed out. Please check if your transaction was successful."
TxtOperationTimedOut ==
    <<"O","p","e","r","a","t","i","o","n"," ","t","i","m","e","d"," ","o","u","t",".",
      " ","P","l","e","a","s","e"," ","c","h","e","c","k">>
\* "Content already exists"
PatContentExists ==
    <<"C","o","n","t","e","n","t"," ","a","l","r","e","a","d","y"," ","e","x","i","s","t","s">>
\* "A QCI with identical content already exists. ..."
TxtIdenticalContent ==
    <<"A"," ","Q","C","I"," ","w","i","t","h"," ","i","d","e","n","t","i","c","a","l"," ",
      "c","o","n","t","e","n","t">>
\* the messages a wallet produces when the user declines to sign
SignerRejectionMessages == {MsgUserRejected, MsgUserDenied, MsgUserRejectedLower}
\* the messages writeContractAsync can throw
WriteErrors == SignerRejectionMessages \cup {MsgAccessControl, MsgReverted, MsgNetwork}
\* the messages a confirmation wait, a read or an upload can throw
NetErrors == {MsgNetwork}

\* how a failed write call is recorded: the signer declined, or another error
WriteFailure(msg) == IF msg \in SignerRejectionMessages THEN "writeRejected" ELSE "writeErr"

\* String.prototype.includes
includes(s, pat) ==
    \E i \in 0..(Len(s) - Len(pat)) : SubSeq(s, i + 1, i + Len(pat)) = pat

UpperToLower ==
    [c \in {"U", "A", "C", "T", "F", "N", "Y"} |->
        CASE c = "U" -> "u" [] c = "A" -> "a" [] c = "C" -> "c"
          [] c = "T" -> "t" [] c = "F" -> "f" [] c = "N" -> "n" [] c = "Y" -> "y"]

\* String.prototype.toLowerCase
toLowerCase(s) ==
    [i \in 1..Len(s) |-> IF s[i] \in DOMAIN UpperToLower THEN UpperToLower[s[i]] ELSE s[i]]

(***************************************************************************)
(* Statuses.  A QCIStatus enum value is written as its decimal digit, a    *)
(* status name as the name; the two never compare equal, as in the source. *)
(***************************************************************************)
StatusNames == <<"Draft", "Ready for Snapshot">>
StatusEnums == <<"0", "1">>
EnumSet == {StatusEnums[i] : i \in 1..Len(StatusEnums)}
NameSet == {StatusNames[i] : i \in 1..Len(StatusNames)}

\* STATUS_ENUM_TO_NAME[e] ?? "Draft"
STATUS_ENUM_TO_NAME(e) ==
    IF \E i \in 1..Len(StatusEnums) : StatusEnums[i] = e
    THEN StatusNames[CHOOSE i \in 1..Len(StatusEnums) : StatusEnums[i] = e]
    ELSE "Draft"

\* the enum value the registry getter returns for a status name
NameToEnum(n) == StatusEnums[CHOOSE i \in 1..Len(StatusNames) : StatusNames[i] = n]

(***************************************************************************)
(* Content store helpers (ipfsService)                                     *)
(***************************************************************************)
Titles == {"Add X as collateral"}
\* the chain field of the editor; "" is the field left empty
Chains == {"Base", ""}
Contents == [title : Titles, chain : Chains, implementor : {"None"}, qci : {0}]

formatQCIContent(content) == <<"doc", content>>
calculateCID(fullContent) == <<"cid", fullContent>>
calculateContentHash(content) == <<"hash", content>>
\* an identifier the store can return that no document of the model hashes to
ForeignCID ==
    <<"cid", <<"doc", [title |-> "?", chain |-> "?", implementor |-> "?", qci |-> 0]>>>>
ipfsUrlOf(cid) == <<"ipfs://", cid>>

(***************************************************************************)
(* Query cache                                                             *)
(***************************************************************************)
MaxId == NumQCI + MaxOps
QCINumbers == 0..MaxId

K_api == <<"qcis", "api">>
K_full == <<"qcis", "api", "maiApiUrl", "includeContent:false,forceRefresh:false">>
K_list == <<"qcis", "list", "registry">>
K_qci(n) == <<"qci", n, "registry">>
ListKeys == {K_api, K_full, K_list}
DetailKeys == {K_qci(n) : n \in QCINumbers}

NoEntry == [present |-> FALSE]
\* "undefined"
Undefined == [present |-> FALSE]

\* partial query-key matching of invalidateQueries / removeQueries
KeyMatches(filter, key) ==
    /\ Len(filter) <= Len(key)
    /\ \A i \in 1..Len(filter) : key[i] = filter[i]

(***************************************************************************)
(* State                                                                   *)
(***************************************************************************)
VARIABLES
    registry,       \* the on-chain registry: count, status, version, snapshot per id
    cache,          \* the query cache: key -> entry (data, stale) or NoEntry
    pc,             \* the stage the mutation in flight is at, "idle" when none
    m,              \* variables and locals of the mutation in flight
    result,         \* how the last mutation ended
    context,        \* what onMutate returned
    trace,          \* the external calls of the mutation in flight, in order
    writeCalls,     \* the writeContractAsync invocations of the mutation in flight
    uploads,        \* the upload invocations of the mutation in flight
    log,            \* console warnings / errors of the mutation in flight
    toast,          \* the last toast shown for the mutation in flight
    notifications,  \* notifications the mutation in flight sent to the auxiliary index
    before,         \* the list entries of the cache when the status mutation in flight started,
                    \* kept until the mutation has settled
    effects,        \* the cache writes of the handlers of the mutation in flight, in order
    opsStarted,     \* mutations started so far
    editor          \* the state of the proposal editor: saving, error, success, the
                    \* submission it awaits

vars == <<registry, cache, pc, m, result, context, trace, writeCalls, uploads,
          log, toast, notifications, before, effects, opsStarted, editor>>

AllKeys == ListKeys \cup DetailKeys

NoResult == [status |-> "none"]
NoFrame == [kind |-> "none"]
NoContext == [set |-> FALSE]
NoToast == [kind |-> "none"]

\* the list the registry and the index serve
RegistryItem(reg, n) ==
    [qciNumber |-> n, status |-> reg.status[n], statusEnum |-> NameToEnum(reg.status[n])]
RegistryList(reg) == [n \in 1..reg.count |-> RegistryItem(reg, n)]

InitRegistry ==
    [count |-> NumQCI,
     status |-> [n \in 1..MaxId |-> "Draft"],
     version |-> [n \in 1..MaxId |-> 1],
     snapshot |-> [n \in 1..MaxId |-> "None"]]

\* no message: the null of the error and success states
NoMessage == <<>>
\* the form fields of an editor opened without a proposal: title, chain,
\* content, implementor, transactions
InitForm ==
    [title |-> "", chain |-> "Polygon", implementor |-> "None", content |-> "",
     transactions |-> <<>>]
\* useState(false), useState<string | null>(null) of saving, error, success;
\* awaiting: a handleSubmit is suspended at its await; navigated: it navigated
\* to the detail page; timedOutInWait: the saving timeout fired while this
\* submission waited for its confirmation; form: the form fields
InitEditor ==
    [saving |-> FALSE, error |-> NoMessage, success |-> NoMessage,
     awaiting |-> FALSE, navigated |-> FALSE, timedOutInWait |-> FALSE,
     form |-> InitForm]

Init ==
    /\ registry = InitRegistry
    /\ cache = [k \in AllKeys |-> NoEntry]
    /\ pc = "idle"
    /\ m = NoFrame
    /\ result = NoResult
    /\ context = NoContext
    /\ trace = <<>>
    /\ writeCalls = <<>>
    /\ uploads = <<>>
    /\ log = {}
    /\ toast = NoToast
    /\ notifications = <<>>
    /\ effects = <<>>
    /\ before = <<>>
    /\ opsStarted = 0
    /\ editor = InitEditor

(***************************************************************************)
(* queryClient operations                                                  *)
(***************************************************************************)
\* queryClient.getQueryData(key)
getQueryData(c, key) == IF c[key].present THEN c[key].data ELSE Undefined

\* queryClient.setQueryData(key, data): a write of undefined is ignored; a
\* write of data also clears the invalidated mark of the query
setQueryData(c, key, data) ==
    IF data = Undefined THEN c
    ELSE [c EXCEPT ![key] = [present |-> TRUE, data |-> data, stale |-> FALSE]]

\* queryClient.invalidateQueries({ queryKey: filter })
invalidateQueries(c, filter) ==
    [k \in DOMAIN c |->
        IF c[k].present /\ KeyMatches(filter, k) THEN [c[k] EXCEPT !.stale = TRUE] ELSE c[k]]

\* old.map(qci => qci.qciNumber === Number(qciNumber) ? {...qci, status, statusEnum} : qci)
PatchList(list, q, s) ==
    [i \in DOMAIN list |->
        IF list[i].qciNumber = q
        THEN [list[i] EXCEPT !.status = s, !.statusEnum = s]
        ELSE list[i]]

\* what a fetch of list query k stores
Fetched(k, shape) ==
    [present |-> TRUE,
     data |-> [shape |-> shape, list |-> RegistryList(registry)],
     stale |-> FALSE]

\* a list query is mounted before the first mutation and its first fetch lands;
\* the data under the partial key has the shape the updater of onMutate expects,
\* an object whose member "0" is the list
FetchList(k) ==
    /\ k \in ListKeys
    /\ pc = "idle"
    /\ opsStarted = 0
    /\ ~cache[k].present
    /\ \A d \in DetailKeys : ~cache[d].present
    /\ cache' = [cache EXCEPT ![k] = Fetched(k, IF k = K_api THEN "wrapped" ELSE "array")]
    /\ UNCHANGED <<registry, pc, m, result, context, trace, writeCalls, uploads,
                   log, toast, notifications, effects, before, opsStarted, editor>>

\* the refetch of an invalidated list query lands; refetches land while no
\* mutation is in flight (onMutate cancels the outgoing ones)
RefetchList(k) ==
    /\ k \in ListKeys
    /\ pc = "idle"
    /\ cache[k].present
    /\ cache[k].stale
    /\ cache' = [cache EXCEPT ![k] = Fetched(k, cache[k].data.shape)]
    /\ UNCHANGED <<registry, pc, m, result, context, trace, writeCalls, uploads,
                   log, toast, notifications, effects, before, opsStarted, editor>>

\* the detail page of proposal q is mounted before the first mutation and the
\* fetch of its registry entry lands.  The list page and the detail pages are
\* routes of one router: the queries of one page are mounted before the first
\* mutation
FetchDetail(q) ==
    /\ pc = "idle"
    /\ opsStarted = 0
    /\ q \in 1..registry.count
    /\ \A k \in AllKeys : ~cache[k].present
    /\ cache' = [cache EXCEPT ![K_qci(q)] =
                    [present |-> TRUE,
                     data |-> [qciNumber |-> q, status |-> registry.status[q],
                               source |-> "blockchain"],
                     stale |-> FALSE]]
    /\ UNCHANGED <<registry, pc, m, result, context, trace, writeCalls, uploads,
                   log, toast, notifications, effects, before, opsStarted, editor>>

\* the hash of the transaction the write call being made submits
TxHash == <<"tx", opsStarted, Len(writeCalls) + 1>>

\* the frame r with local f set to v
With(r, f, v) == (f :> v) @@ r

\* the locals every mutation starts with
StartFrame ==
    /\ pc = "idle"
    /\ opsStarted < MaxOps
    /\ opsStarted' = opsStarted + 1
    /\ result' = NoResult
    /\ trace' = <<>>
    /\ writeCalls' = <<>>
    /\ uploads' = <<>>
    /\ log' = {}
    /\ notifications' = <<>>

\* the mutation function threw: the mutation ends in error (no onError handler)
Throw(stage, msg) ==
    /\ result' = [status |-> "error", stage |-> stage, error |-> msg]
    /\ pc' = "idle"

\* the registry after the transaction of a confirmed call is included
Mined(reg, kind, q, arg) ==
    CASE kind = "createQCI" ->
           [reg EXCEPT !.count = reg.count + 1,
                       !.status[reg.count + 1] = "Draft",
                       !.version[reg.count + 1] = 1]
      [] kind = "updateQCI" -> [reg EXCEPT !.version[q] = reg.version[q] + 1]
      [] kind = "updateStatus" -> [reg EXCEPT !.status[q] = arg]
      [] kind = "linkSnapshotProposal" -> [reg EXCEPT !.snapshot[q] = arg]

(***************************************************************************)
(* useCreateQCI                                                            *)
(***************************************************************************)
\* createQCIMutation.mutateAsync({ content })
StartCreate(content) ==
    /\ StartFrame
    /\ m' = [kind |-> "create", content |-> content]
    /\ pc' = "c_hash"
    /\ context' = NoContext
    /\ toast' = NoToast
    /\ effects' = <<>>
    /\ before' = <<>>
    /\ UNCHANGED <<registry, cache>>

\* variant of CreateHash: the hash passed on is taken over the formatted document,
\* not over the content
CreateHash_HashOfDocument ==
    /\ pc = "c_hash"
    /\ LET fullContent == formatQCIContent(m.content)
           expectedCID == calculateCID(fullContent)
       IN m' = [fullContent |-> fullContent,
                expectedCID |-> expectedCID,
                expectedIpfsUrl |-> ipfsUrlOf(expectedCID),
                contentHash |-> calculateContentHash(fullContent)] @@ m
    /\ trace' = trace \o <<"calculateCID", "calculateContentHash">>
    /\ pc' = "c_write"
    /\ UNCHANGED <<registry, cache, result, context, writeCalls, uploads, log,
                   toast, notifications, effects, before, opsStarted, editor>>

\* steps 1 and 2: format, calculateCID, calculateContentHash
CreateHash ==
    /\ pc = "c_hash"
    /\ LET fullContent == formatQCIContent(m.content)
           expectedCID == calculateCID(fullContent)
       IN m' = [fullContent |-> fullContent,
                expectedCID |-> expectedCID,
                expectedIpfsUrl |-> ipfsUrlOf(expectedCID),
                contentHash |-> calculateContentHash(m.content)] @@ m
    /\ trace' = trace \o <<"calculateCID", "calculateContentHash">>
    /\ pc' = "c_write"
    /\ UNCHANGED <<registry, cache, result, context, writeCalls, uploads, log,
                   toast, notifications, effects, before, opsStarted, editor>>

\* step 3: writeContractAsync({ functionName: 'createQCI', ... })
CreateWrite ==
    /\ pc = "c_write"
    /\ writeCalls' = Append(writeCalls,
          [functionName |-> "createQCI",
           args |-> <<m.content.title, m.content.chain, m.contentHash, m.expectedIpfsUrl>>])
    /\ \/ /\ m' = With(m, "txHash", TxHash)
          /\ trace' = trace \o <<"writeContract", "writeOk">>
          /\ pc' = "c_wait"
          /\ UNCHANGED <<result, log>>
       \/ \E msg \in WriteErrors :
          /\ trace' = trace \o <<"writeContract", WriteFailure(msg)>>
          /\ log' = log \cup {"Error creating QCI"}
          /\ Throw("write", msg)
          /\ UNCHANGED m
    /\ UNCHANGED <<registry, cache, context, uploads, toast, notifications,
                   effects, before, opsStarted, editor>>

\* variant of CreateWait: a failed confirmation wait is swallowed and the
\* mutation goes on to the upload
CreateWait_SwallowsError ==
    /\ pc = "c_wait"
    /\ \/ /\ registry' = Mined(registry, "createQCI", 0, 0)
          /\ \E logFound \in BOOLEAN :
                m' = With(m, "qciNumber", IF logFound THEN registry.count + 1 ELSE 0)
          /\ trace' = trace \o <<"waitForReceipt", "receiptOk">>
       \/ /\ registry' = registry
          /\ m' = With(m, "qciNumber", 0)
          /\ trace' = trace \o <<"waitForReceipt", "receiptErr">>
    /\ pc' = "c_upload"
    /\ UNCHANGED <<result, log, cache, context, writeCalls, uploads, toast,
                   notifications, effects, before, opsStarted, editor>>

\* waitForTransactionReceipt and the decoding of the QCI number from the logs
CreateWait ==
    /\ pc = "c_wait"
    /\ \/ /\ registry' = Mined(registry, "createQCI", 0, 0)
          /\ \E logFound \in BOOLEAN :
                m' = With(m, "qciNumber", IF logFound THEN registry.count + 1 ELSE 0)
          /\ trace' = trace \o <<"waitForReceipt", "receiptOk">>
          /\ pc' = "c_upload"
          /\ UNCHANGED <<result, log>>
       \/ \E msg \in NetErrors :
          /\ registry' = registry
          /\ trace' = trace \o <<"waitForReceipt", "receiptErr">>
          /\ log' = log \cup {"Error creating QCI"}
          /\ Throw("confirmation", msg)
          /\ UNCHANGED m
    /\ UNCHANGED <<cache, context, writeCalls, uploads, toast, notifications,
                   effects, before, opsStarted, editor>>

\* step 4: provider.upload, the comparison of the identifiers and the return
CreateUpload ==
    /\ pc = "c_upload"
    /\ uploads' = Append(uploads,
          [content |-> m.fullContent,
           qciNumber |-> IF m.qciNumber > 0 THEN m.qciNumber ELSE "pending"])
    /\ \/ \E actualCID \in {m.expectedCID, ForeignCID} :
          /\ trace' = trace \o <<"upload", "uploadOk">>
          /\ log' = IF actualCID # m.expectedCID THEN log \cup {"CID mismatch"} ELSE log
          /\ m' = With(m, "actualCID", actualCID)
          /\ result' = [status |-> "success",
                        qciNumber |-> m.qciNumber,
                        ipfsUrl |-> m.expectedIpfsUrl,
                        transactionHash |-> m.txHash]
          /\ pc' = "c_onSuccess"
       \/ \E msg \in NetErrors :
          /\ trace' = trace \o <<"upload", "uploadErr">>
          /\ log' = log \cup {"Error creating QCI"}
          /\ Throw("upload", msg)
          /\ UNCHANGED m
    /\ UNCHANGED <<registry, cache, context, writeCalls, toast, notifications,
                   effects, before, opsStarted, editor>>

\* onSuccess: invalidate the lists and seed the detail entry of the new QCI
CreateOnSuccess ==
    /\ pc = "c_onSuccess"
    /\ cache' = setQueryData(invalidateQueries(cache, <<"qcis">>),
                             K_qci(result.qciNumber),
                             [qciNumber |-> result.qciNumber,
                              ipfsUrl |-> result.ipfsUrl,
                              source |-> "blockchain"])
    /\ effects' = effects \o <<[op |-> "invalidateQueries", key |-> <<"qcis">>],
                               [op |-> "setQueryData", key |-> K_qci(result.qciNumber)]>>
    /\ pc' = "idle"
    /\ UNCHANGED <<registry, m, result, context, trace, writeCalls, uploads, log,
                   toast, notifications, before, opsStarted, editor>>

(***************************************************************************)
(* useUpdateQCI                                                            *)
(***************************************************************************)
\* updateQCIMutation.mutateAsync({ qciNumber, content, newStatus })
StartUpdate(qciNumber, content, newStatus) ==
    /\ StartFrame
    /\ qciNumber \in 1..registry.count
    /\ m' = [kind |-> "update", qciNumber |-> qciNumber, content |-> content,
             newStatus |-> newStatus]
    /\ pc' = "u_hash"
    /\ context' = NoContext
    /\ toast' = NoToast
    /\ effects' = <<>>
    /\ before' = <<>>
    /\ UNCHANGED <<registry, cache>>

\* qciContent = {...content, qci: Number(qciNumber)}; steps 1 and 2
UpdateHash ==
    /\ pc = "u_hash"
    /\ LET qciContent == [m.content EXCEPT !.qci = m.qciNumber]
           fullContent == formatQCIContent(qciContent)
           expectedCID == calculateCID(fullContent)
       IN m' = [fullContent |-> fullContent,
                expectedCID |-> expectedCID,
                expectedIpfsUrl |-> ipfsUrlOf(expectedCID),
                contentHash |-> calculateContentHash(qciContent)] @@ m
    /\ trace' = trace \o <<"calculateCID", "calculateContentHash">>
    /\ pc' = "u_write"
    /\ UNCHANGED <<registry, cache, result, context, writeCalls, uploads, log,
                   toast, notifications, effects, before, opsStarted, editor>>

\* the catch block of the update: log and rethrow
UpdateThrow(stage, msg) ==
    /\ log' = log \cup {"Error updating QCI"}
                  \cup (IF includes(msg, MsgReverted) THEN {"Transaction reverted"} ELSE {})
    /\ Throw(stage, msg)

\* step 3: writeContractAsync({ functionName: 'updateQCI', ... })
UpdateWrite ==
    /\ pc = "u_write"
    /\ writeCalls' = Append(writeCalls,
          [functionName |-> "updateQCI",
           args |-> <<m.qciNumber, m.content.title, m.content.chain,
                      m.content.implementor, m.contentHash, m.expectedIpfsUrl>>])
    /\ \/ /\ m' = With(m, "txHash", TxHash)
          /\ trace' = trace \o <<"writeContract", "writeOk">>
          /\ pc' = "u_wait"
          /\ UNCHANGED <<result, log>>
       \/ \E msg \in WriteErrors :
          /\ trace' = trace \o <<"writeContract", WriteFailure(msg)>>
          /\ UpdateThrow("write", msg)
          /\ UNCHANGED m
    /\ UNCHANGED <<registry, cache, context, uploads, toast, notifications,
                   effects, before, opsStarted, editor>>

\* waitForTransactionReceipt({ hash: txHash, confirmations: 1 })
UpdateWait ==
    /\ pc = "u_wait"
    /\ \/ /\ registry' = Mined(registry, "updateQCI", m.qciNumber, 0)
          /\ trace' = trace \o <<"waitForReceipt", "receiptOk">>
          /\ pc' = "u_upload"
          /\ UNCHANGED <<result, log>>
       \/ \E msg \in NetErrors :
          /\ registry' = registry
          /\ trace' = trace \o <<"waitForReceipt", "receiptErr">>
          /\ UpdateThrow("confirmation", msg)
    /\ UNCHANGED <<cache, m, context, writeCalls, uploads, toast, notifications,
                   effects, before, opsStarted, editor>>

\* variant of UpdateUpload: an identifier other than the pre-computed one is
\* thrown as an error
UpdateUpload_MismatchThrows ==
    /\ pc = "u_upload"
    /\ uploads' = Append(uploads, [content |-> m.fullContent, qciNumber |-> m.qciNumber])
    /\ \/ /\ trace' = trace \o <<"upload", "uploadOk">>
          /\ m' = With(m, "actualCID", m.expectedCID)
          /\ pc' = IF m.newStatus # "undefined" THEN "u_readStatus" ELSE "u_readVersion"
          /\ UNCHANGED <<result, log>>
       \/ /\ trace' = trace \o <<"upload", "uploadOk">>
          /\ m' = With(m, "actualCID", ForeignCID)
          /\ UpdateThrow("upload", MsgNetwork)
       \/ \E msg \in NetErrors :
          /\ trace' = trace \o <<"upload", "uploadErr">>
          /\ UpdateThrow("upload", msg)
          /\ UNCHANGED m
    /\ UNCHANGED <<registry, cache, context, writeCalls, toast, notifications,
                   effects, before, opsStarted, editor>>

\* step 4: provider.upload and the comparison of the identifiers
UpdateUpload ==
    /\ pc = "u_upload"
    /\ uploads' = Append(uploads, [content |-> m.fullContent, qciNumber |-> m.qciNumber])
    /\ \/ \E actualCID \in {m.expectedCID, ForeignCID} :
          /\ trace' = trace \o <<"upload", "uploadOk">>
          /\ log' = IF actualCID # m.expectedCID THEN log \cup {"CID mismatch"} ELSE log
          /\ m' = With(m, "actualCID", actualCID)
          /\ pc' = IF m.newStatus # "undefined" THEN "u_readStatus" ELSE "u_readVersion"
          /\ UNCHANGED result
       \/ \E msg \in NetErrors :
          /\ trace' = trace \o <<"upload", "uploadErr">>
          /\ UpdateThrow("upload", msg)
          /\ UNCHANGED m
    /\ UNCHANGED <<registry, cache, context, writeCalls, toast, notifications,
                   effects, before, opsStarted, editor>>

\* readContract('qcis') for the current status; updateStatus when it differs
UpdateReadStatus ==
    /\ pc = "u_readStatus"
    /\ \/ /\ trace' = trace \o <<"readContract", "readOk">>
          /\ pc' = IF m.newStatus # NameToEnum(registry.status[m.qciNumber])
                   THEN "u_writeStatus" ELSE "u_readVersion"
          /\ UNCHANGED <<result, log>>
       \/ \E msg \in NetErrors :
          /\ trace' = trace \o <<"readContract", "readErr">>
          /\ UpdateThrow("statusRead", msg)
    /\ UNCHANGED <<registry, cache, m, context, writeCalls, uploads, toast,
                   notifications, effects, before, opsStarted, editor>>

\* writeContractAsync({ functionName: 'updateStatus', args: [qciNumber, statusString] });
\* its confirmation is not awaited
UpdateWriteStatus ==
    /\ pc = "u_writeStatus"
    /\ LET statusString == STATUS_ENUM_TO_NAME(m.newStatus) IN
       /\ writeCalls' = Append(writeCalls,
             [functionName |-> "updateStatus", args |-> <<m.qciNumber, statusString>>])
       /\ \/ /\ registry' = Mined(registry, "updateStatus", m.qciNumber, statusString)
             /\ trace' = trace \o <<"writeStatus", "writeStatusOk">>
             /\ pc' = "u_readVersion"
             /\ UNCHANGED <<result, log>>
          \/ \E msg \in WriteErrors :
             /\ trace' = trace \o <<"writeStatus", WriteFailure(msg)>>
             /\ UpdateThrow("statusWrite", msg)
             /\ UNCHANGED registry
    /\ UNCHANGED <<cache, m, context, uploads, toast, notifications, effects, before, opsStarted, editor>>

\* readContract('qcis') for the version, and the return
UpdateReadVersion ==
    /\ pc = "u_readVersion"
    /\ \/ /\ trace' = trace \o <<"readContract", "readOk">>
          /\ result' = [status |-> "success",
                        qciNumber |-> m.qciNumber,
                        ipfsUrl |-> m.expectedIpfsUrl,
                        version |-> registry.version[m.qciNumber],
                        transactionHash |-> m.txHash]
          /\ pc' = "u_onSuccess"
          /\ UNCHANGED log
       \/ \E msg \in NetErrors :
          /\ trace' = trace \o <<"readContract", "readErr">>
          /\ UpdateThrow("versionRead", msg)
    /\ UNCHANGED <<registry, cache, m, context, writeCalls, uploads, toast,
                   notifications, effects, before, opsStarted, editor>>

\* onSuccess: invalidate the lists and the detail entries of the QCI
UpdateOnSuccess ==
    /\ pc = "u_onSuccess"
    /\ cache' = invalidateQueries(invalidateQueries(cache, <<"qcis">>),
                                  <<"qci", result.qciNumber>>)
    /\ effects' = effects \o <<[op |-> "invalidateQueries", key |-> <<"qcis">>],
                               [op |-> "invalidateQueries", key |-> <<"qci", result.qciNumber>>]>>
    /\ pc' = "idle"
    /\ UNCHANGED <<registry, m, result, context, trace, writeCalls, uploads, log,
                   toast, notifications, before, opsStarted, editor>>

(***************************************************************************)
(* useLinkSnapshotProposal                                                 *)
(***************************************************************************)
ProposalIds == {"0xabc"}

\* linkSnapshotMutation.mutateAsync({ qciNumber, proposalId }): the call
\* writeContractAsync({ functionName: 'linkSnapshotProposal', ... })
StartLink(qciNumber, proposalId) ==
    /\ StartFrame
    /\ qciNumber \in 1..registry.count
    /\ m' = [kind |-> "link", qciNumber |-> qciNumber, proposalId |-> proposalId]
    /\ pc' = "l_write"
    /\ context' = NoContext
    /\ toast' = NoToast
    /\ effects' = <<>>
    /\ before' = <<>>
    /\ UNCHANGED <<registry, cache>>

LinkWrite ==
    /\ pc = "l_write"
    /\ writeCalls' = Append(writeCalls,
          [functionName |-> "linkSnapshotProposal", args |-> <<m.qciNumber, m.proposalId>>])
    /\ \/ /\ m' = With(m, "txHash", TxHash)
          /\ trace' = trace \o <<"writeContract", "writeOk">>
          /\ pc' = "l_wait"
          /\ UNCHANGED result
       \/ \E msg \in WriteErrors :
          /\ trace' = trace \o <<"writeContract", WriteFailure(msg)>>
          /\ Throw("write", msg)
          /\ UNCHANGED m
    /\ UNCHANGED <<registry, cache, context, uploads, log, toast, notifications,
                   effects, before, opsStarted, editor>>

\* waitForTransactionReceipt, then return hash
LinkWait ==
    /\ pc = "l_wait"
    /\ \/ /\ registry' = Mined(registry, "linkSnapshotProposal", m.qciNumber, m.proposalId)
          /\ trace' = trace \o <<"waitForReceipt", "receiptOk">>
          /\ result' = [status |-> "success", hash |-> m.txHash]
          /\ pc' = "l_onSuccess"
       \/ \E msg \in NetErrors :
          /\ registry' = registry
          /\ trace' = trace \o <<"waitForReceipt", "receiptErr">>
          /\ Throw("confirmation", msg)
    /\ UNCHANGED <<cache, m, context, writeCalls, uploads, log, toast, notifications,
                   effects, before, opsStarted, editor>>

\* onSuccess: invalidate the lists and the detail entries of the QCI
LinkOnSuccess ==
    /\ pc = "l_onSuccess"
    /\ cache' = invalidateQueries(invalidateQueries(cache, <<"qcis">>),
                                  <<"qci", m.qciNumber>>)
    /\ effects' = effects \o <<[op |-> "invalidateQueries", key |-> <<"qcis">>],
                               [op |-> "invalidateQueries", key |-> <<"qci", m.qciNumber>>]>>
    /\ pc' = "idle"
    /\ UNCHANGED <<registry, m, result, context, trace, writeCalls, uploads, log,
                   toast, notifications, before, opsStarted, editor>>

(***************************************************************************)
(* useStatusUpdateMutation                                                 *)
(***************************************************************************)
\* failures after which the retry option stops retrying
RetryLimit == 2

\* the first four conditions of the retry option
IsRejection(msg) ==
    \/ includes(msg, PatUserRejected)
    \/ includes(msg, PatUserDenied)
    \/ includes(msg, PatUserCancelled)
    \/ includes(toLowerCase(msg), PatRejected)

\* variant of retry: the failure count alone decides
retry_CountOnly(failureCount, msg) == failureCount < RetryLimit

\* retry: (failureCount, error) => ...
retry(failureCount, msg) ==
    IF IsRejection(msg) THEN FALSE ELSE failureCount < RetryLimit

\* the updater onMutate passes to setQueryData(["qcis", "api"], ...)
ApiUpdater(old, q, s) ==
    IF old = Undefined THEN old
    ELSE IF old.shape = "wrapped"
         THEN [old EXCEPT !.list = PatchList(old.list, q, s)]
         ELSE old

\* the cache after onMutate
OnMutateCache(c, q, s) ==
    LET c1 == setQueryData(c, K_api, ApiUpdater(getQueryData(c, K_api), q, s))
        currentQCIs == getQueryData(c1, K_full)
    IN IF currentQCIs # Undefined
       THEN setQueryData(c1, K_full,
                         [currentQCIs EXCEPT !.list = PatchList(currentQCIs.list, q, s)])
       ELSE c1

\* statusMutation.mutate({ qciNumber, newStatus, registryAddress }): onMutate
StartStatus(qciNumber, newStatus) ==
    /\ StartFrame
    /\ qciNumber \in 1..registry.count
    /\ m' = [kind |-> "status", qciNumber |-> qciNumber, newStatus |-> newStatus,
             failureCount |-> 0]
    /\ toast' = [kind |-> "loading", text |-> newStatus]
    /\ context' = [set |-> TRUE, previousData |-> getQueryData(cache, K_api),
                   qciNumber |-> qciNumber]
    /\ cache' = OnMutateCache(cache, qciNumber, newStatus)
    /\ before' = [k \in ListKeys |-> cache[k]]
    /\ effects' = (IF getQueryData(cache, K_api) # Undefined
                   THEN <<[op |-> "setQueryData", key |-> K_api]>> ELSE <<>>)
                  \o (IF getQueryData(cache, K_full) # Undefined
                      THEN <<[op |-> "setQueryData", key |-> K_full]>> ELSE <<>>)
    /\ pc' = "s_write"
    /\ UNCHANGED registry

\* the mutation function threw: the retryer asks the retry option
StatusFail(stage, msg) ==
    IF retry(m.failureCount, msg)
    THEN /\ m' = With(m, "failureCount", m.failureCount + 1)
         /\ pc' = "s_write"
         /\ UNCHANGED result
    ELSE /\ m' = m
         /\ result' = [status |-> "error", stage |-> stage, error |-> msg]
         /\ pc' = "s_onError"

\* mutationFn: writeContractAsync({ functionName: 'updateStatus', ... })
StatusWrite ==
    /\ pc = "s_write"
    /\ LET statusString == IF m.newStatus \in EnumSet
                           THEN STATUS_ENUM_TO_NAME(m.newStatus) ELSE m.newStatus
       IN writeCalls' = Append(writeCalls,
             [functionName |-> "updateStatus", args |-> <<m.qciNumber, statusString>>])
    /\ \/ /\ m' = With(m, "txHash", TxHash)
          /\ trace' = trace \o <<"writeContract", "writeOk">>
          /\ pc' = "s_wait"
          /\ UNCHANGED result
       \/ \E msg \in WriteErrors :
          /\ trace' = trace \o <<"writeContract", WriteFailure(msg)>>
          /\ StatusFail("write", msg)
    /\ UNCHANGED <<registry, cache, context, uploads, log, toast, notifications,
                   effects, before, opsStarted, editor>>

\* mutationFn: waitForTransactionReceipt, the notification to the auxiliary
\* index (sent when config.maiApiUrl and config.useMaiApi are set), return hash
StatusWait ==
    /\ pc = "s_wait"
    /\ LET statusString == IF m.newStatus \in EnumSet
                           THEN STATUS_ENUM_TO_NAME(m.newStatus) ELSE m.newStatus
       IN \/ /\ registry' = Mined(registry, "updateStatus", m.qciNumber, statusString)
             /\ trace' = trace \o <<"waitForReceipt", "receiptOk">>
             /\ \E useMaiApi \in BOOLEAN :
                  notifications' =
                     IF useMaiApi
                     THEN Append(notifications,
                                 [type |-> "status_update", qciNumber |-> m.qciNumber,
                                  txHash |-> m.txHash, state |-> "sent"])
                     ELSE notifications
             /\ result' = [status |-> "success", hash |-> m.txHash]
             /\ pc' = "s_onSuccess"
             /\ m' = m
          \/ \E msg \in NetErrors :
             /\ registry' = registry
             /\ trace' = trace \o <<"waitForReceipt", "receiptErr">>
             /\ StatusFail("confirmation", msg)
             /\ UNCHANGED notifications
    /\ UNCHANGED <<cache, context, writeCalls, uploads, log, toast, effects,
                   before, opsStarted, editor>>

\* variant of the notification: awaited, its failure fails the operation
NotifyFails_Rejects ==
    /\ \E i \in 1..Len(notifications) :
          /\ notifications[i].state = "sent"
          /\ notifications' = [notifications EXCEPT ![i].state = "failed"]
    /\ log' = log \cup {"[StatusUpdate] Cache invalidation failed"}
    /\ result' = [status |-> "error", stage |-> "notification", error |-> MsgNetwork]
    /\ UNCHANGED <<registry, cache, pc, m, context, trace, writeCalls,
                   uploads, toast, effects, before, opsStarted, editor>>

\* the .catch of the notification: the failure is logged
NotifyFails ==
    /\ \E i \in 1..Len(notifications) :
          /\ notifications[i].state = "sent"
          /\ notifications' = [notifications EXCEPT ![i].state = "failed"]
    /\ log' = log \cup {"[StatusUpdate] Cache invalidation failed"}
    /\ UNCHANGED <<registry, cache, pc, m, result, context, trace, writeCalls,
                   uploads, toast, effects, before, opsStarted, editor>>

\* the message onError shows
ErrorMessage(msg) ==
    IF includes(msg, PatAccessControl) THEN TxtNoPermission
    ELSE IF includes(msg, PatUserRejected) THEN TxtTransactionCancelled
    ELSE IF msg # <<>> THEN msg
    ELSE TxtFailedToUpdate

\* onError: dismiss the loading toast, roll back, show the error
StatusOnError ==
    /\ pc = "s_onError"
    /\ IF context.previousData # Undefined
       THEN /\ cache' = setQueryData(cache, K_api, context.previousData)
            /\ effects' = Append(effects, [op |-> "setQueryData", key |-> K_api])
       ELSE UNCHANGED <<cache, effects>>
    /\ toast' = [kind |-> "error", text |-> ErrorMessage(result.error)]
    /\ pc' = "s_onSettled"
    /\ UNCHANGED <<registry, m, result, context, trace, writeCalls, uploads, log,
                   notifications, before, opsStarted, editor>>

\* onSuccess: success toast, mark the list queries stale
StatusOnSuccess ==
    /\ pc = "s_onSuccess"
    /\ toast' = [kind |-> "success", text |-> m.newStatus]
    /\ cache' = invalidateQueries(cache, <<"qcis">>)
    /\ effects' = Append(effects, [op |-> "invalidateQueries", key |-> <<"qcis">>])
    /\ pc' = "s_onSettled"
    /\ UNCHANGED <<registry, m, result, context, trace, writeCalls, uploads, log,
                   notifications, before, opsStarted, editor>>

\* onSettled: invalidateQueries({ queryKey: ["qcis", "api"] })
StatusOnSettled ==
    /\ pc = "s_onSettled"
    /\ cache' = invalidateQueries(cache, K_api)
    /\ effects' = Append(effects, [op |-> "invalidateQueries", key |-> K_api])
    /\ before' = <<>>
    /\ pc' = "idle"
    /\ UNCHANGED <<registry, m, result, context, trace, writeCalls, uploads, log,
                   toast, notifications, opsStarted, editor>>

Next ==
    \/ \E k \in ListKeys : FetchList(k)
    \/ \E k \in ListKeys : RefetchList(k)
    \/ \E q \in 1..MaxId : FetchDetail(q)
    \/ \E content \in Contents : StartCreate(content) /\ UNCHANGED editor
    \/ CreateHash
    \/ CreateWrite
    \/ CreateWait
    \/ CreateUpload
    \/ CreateOnSuccess
    \/ \E q \in 1..MaxId, content \in Contents, newStatus \in {"undefined"} \cup EnumSet :
          StartUpdate(q, content, newStatus) /\ UNCHANGED editor
    \/ UpdateHash
    \/ UpdateWrite
    \/ UpdateWait
    \/ UpdateUpload
    \/ UpdateReadStatus
    \/ UpdateWriteStatus
    \/ UpdateReadVersion
    \/ UpdateOnSuccess
    \/ \E q \in 1..MaxId, proposalId \in ProposalIds : StartLink(q, proposalId) /\ UNCHANGED editor
    \/ LinkWrite
    \/ LinkWait
    \/ LinkOnSuccess
    \/ \E q \in 1..MaxId, newStatus \in NameSet \cup EnumSet : StartStatus(q, newStatus) /\ UNCHANGED editor
    \/ StatusWrite
    \/ StatusWait
    \/ NotifyFails
    \/ StatusOnError
    \/ StatusOnSuccess
    \/ StatusOnSettled

Spec == Init /\ [][Next]_vars

(***************************************************************************)
(* transactionParser: grouping by multisig and the markdown embedding.     *)
(* A multisig owner is a string, modelled as a sequence of characters so   *)
(* that the property-key order of Object.entries is computed.              *)
(***************************************************************************)
\* transactions one editor session holds
MaxTx == 3

\* the value undefined of a multisig field: equal to no string
UndefinedOwner == <<"(undefined)">>
\* the literal 'undefined' the grouping uses as its key for "no owner"
KeyUndefined == <<"u","n","d","e","f","i","n","e","d">>
\* multisig owners found in documents: two addresses, and two strings that are
\* not addresses (the field is a string read from the stored document and is
\* not validated)
Owners == {<<"0","x","A">>, <<"0","x","B">>, <<"7">>, KeyUndefined}

\* TransactionData: position i of the editor's list, with its multisig field
TransactionData(i, owner) == [id |-> i, multisig |-> owner]
TxSeqs(n) == [1..n -> Owners \cup {UndefinedOwner}]
\* the lists of transactions of length n
TransactionLists(n) ==
    {[i \in 1..n |-> TransactionData(i, f[i])] : f \in TxSeqs(n)}

DigitValue(c) ==
    CASE c = "0" -> 0 [] c = "1" -> 1 [] c = "2" -> 2 [] c = "3" -> 3 [] c = "4" -> 4
      [] c = "5" -> 5 [] c = "6" -> 6 [] c = "7" -> 7 [] c = "8" -> 8 [] c = "9" -> 9
      [] OTHER -> -1
\* a property key that is a canonical array index: Object.entries lists such
\* keys first, in ascending numeric order
IsArrayIndex(key) ==
    /\ Len(key) > 0
    /\ \A i \in 1..Len(key) : DigitValue(key[i]) >= 0
    /\ (Len(key) > 1 => key[1] # "0")
RECURSIVE IndexValue(_)
IndexValue(key) ==
    IF key = <<>> THEN 0
    ELSE 10 * IndexValue(SubSeq(key, 1, Len(key) - 1)) + DigitValue(key[Len(key)])

\* tx.multisig || 'undefined'
GroupKey(tx) ==
    IF tx.multisig = UndefinedOwner \/ tx.multisig = <<>> THEN KeyUndefined ELSE tx.multisig

\* transactions.reduce(...): the object grouped, as its keys in insertion order
\* and the list under each key
RECURSIVE ReduceGroups(_, _)
ReduceGroups(transactions, groups) ==
    IF transactions = <<>> THEN groups
    ELSE LET tx == Head(transactions)
             multisig == GroupKey(tx)
             at == {i \in 1..Len(groups) : groups[i].key = multisig}
         IN ReduceGroups(Tail(transactions),
               IF at = {}
               THEN Append(groups, [key |-> multisig, txs |-> <<tx>>])
               ELSE LET i == CHOOSE j \in at : TRUE
                    IN [groups EXCEPT ![i].txs = Append(@, tx)])

\* variant of ObjectEntries: the entries in reverse insertion order
ObjectEntries_Reversed(grouped) ==
    [r \in 1..Len(grouped) |-> grouped[Len(grouped) + 1 - r]]

\* Object.entries(grouped): array-index keys ascending, then the other keys in
\* insertion order
ObjectEntries(grouped) ==
    LET index == {i \in 1..Len(grouped) : IsArrayIndex(grouped[i].key)}
        Rank(i) == IF i \in index
                   THEN Cardinality({j \in index : IndexValue(grouped[j].key)
                                                     < IndexValue(grouped[i].key)}) + 1
                   ELSE Cardinality(index)
                        + Cardinality({j \in 1..i : j \notin index})
    IN [r \in 1..Len(grouped) |-> grouped[CHOOSE i \in 1..Len(grouped) : Rank(i) = r]]

\* groupTransactionsByMultisig(transactions)
groupTransactionsByMultisig(transactions) ==
    IF Len(transactions) = 0 THEN <<>>
    ELSE LET entries == ObjectEntries(ReduceGroups(transactions, <<>>))
         IN [i \in 1..Len(entries) |->
                [multisig |-> IF entries[i].key = KeyUndefined
                              THEN UndefinedOwner ELSE entries[i].key,
                 transactions |-> entries[i].txs]]

\* groups.flatMap(group => group.transactions)
RECURSIVE flatMap(_)
flatMap(groups) ==
    IF groups = <<>> THEN <<>> ELSE Head(groups).transactions \o flatMap(Tail(groups))

(***************************************************************************)
(* JSON values and the document.  A JSON value is an array, an object with *)
(* its set of keys, or a number; a document is its body and, when it has   *)
(* one, the text of the json block under its "## Transactions" heading.    *)
(***************************************************************************)
JArray(items) == [kind |-> "array", keys |-> {}, items |-> items]
JNumber == [kind |-> "number", keys |-> {}]
\* JSON.parse(ABIParser.formatTransaction(tx)): the object of one transaction;
\* a member whose value is undefined is not written
JTransaction(tx) ==
    [kind |-> "object",
     keys |-> {"chain", "contractAddress", "functionName", "args"}
                 \cup (IF tx.multisig = UndefinedOwner THEN {} ELSE {"multisig"}),
     tx |-> tx]
\* the object JSON.stringify writes for { multisig, transactions }: a member
\* whose value is undefined is not written
JGroup(multisig, transactions) ==
    [kind |-> "object",
     keys |-> {"transactions"} \cup (IF multisig = UndefinedOwner THEN {} ELSE {"multisig"}),
     multisig |-> multisig,
     transactions |-> transactions]

\* JSON text: what JSON.stringify(value) writes, or text that is not JSON
JSONstringify(value) == [json |-> TRUE, value |-> value]
MalformedText == [json |-> FALSE]

NoSection == [present |-> FALSE]
Section(text) == [present |-> TRUE, text |-> text]
Document(body, section) == [body |-> body, section |-> section]

\* groupTransactionsByMultisig(transactions).map(group => ({ multisig, transactions:
\* group.transactions.map(tx => JSON.parse(ABIParser.formatTransaction(tx))) }))
\* and JSON.stringify(transactionGroups, null, 2) when there are transactions
serializedTransactions(transactions) ==
    IF Len(transactions) > 0
    THEN LET groups == groupTransactionsByMultisig(transactions)
         IN Section(JSONstringify(JArray(
                [g \in 1..Len(groups) |->
                    JGroup(groups[g].multisig,
                           JArray([t \in 1..Len(groups[g].transactions) |->
                                      JTransaction(groups[g].transactions[t])]))])))
    ELSE NoSection

\* "key in value" throws a TypeError when value is not an object
InThrows(value) == value.kind \notin {"object", "array"}
In(key, value) == key \in value.keys

\* ABIParser.parseTransaction(JSON.stringify(value)) throws unless value has the
\* mandatory members of a transaction
ParseTransactionThrows(value) ==
    ~(value.kind = "object"
        /\ {"chain", "contractAddress", "functionName", "args"} \subseteq value.keys)
parseTransaction(value) == value.tx

\* group.transactions.map(...) of the canonical branch throws
GroupThrows(group) ==
    \/ group.kind # "object"
    \/ ~In("transactions", group)
    \/ group.transactions.kind # "array"
    \/ \E t \in 1..Len(group.transactions.items) :
          ParseTransactionThrows(group.transactions.items[t])

\* the result returned when nothing is extracted
Fallback(content) ==
    [threw |-> FALSE,
     contentWithoutTransactions |-> content,
     transactions |-> <<>>,
     transactionGroups |-> <<>>,
     unwrapped |-> FALSE,
     format |-> "none"]

\* variant of IsDoubleNested: nothing is unwrapped
IsDoubleNested_Never(parsed) == FALSE

\* transactionsJson.length === 1 && Array.isArray(transactionsJson[0])
IsDoubleNested(parsed) == Len(parsed) = 1 /\ parsed[1].kind = "array"

\* variant of IsNewFormat: the multisig key alone decides
IsNewFormat_MultisigOnly(transactionsJson) ==
    /\ Len(transactionsJson) > 0
    /\ In("multisig", transactionsJson[1])

\* transactionsJson.length > 0 && 'multisig' in transactionsJson[0] &&
\* 'transactions' in transactionsJson[0]
IsNewFormat(transactionsJson) ==
    /\ Len(transactionsJson) > 0
    /\ In("multisig", transactionsJson[1])
    /\ In("transactions", transactionsJson[1])

\* the body of the try block, given the matched text; threw when a statement
\* of it throws
TryExtract(content) ==
    LET text == content.section.text IN
    IF ~text.json THEN [threw |-> TRUE]
    ELSE IF text.value.kind # "array" THEN Fallback(content)
    ELSE
      LET parsed == text.value.items
          unwrap == IsDoubleNested(parsed)
          transactionsJson == IF unwrap THEN parsed[1].items ELSE parsed
      IN
      IF Len(transactionsJson) > 0 /\ InThrows(transactionsJson[1]) THEN [threw |-> TRUE]
      ELSE
        LET isNewFormat == IsNewFormat(transactionsJson)
            threw == IF isNewFormat
                     THEN \E g \in 1..Len(transactionsJson) : GroupThrows(transactionsJson[g])
                     ELSE \E t \in 1..Len(transactionsJson) :
                             ParseTransactionThrows(transactionsJson[t])
        IN
        IF threw THEN [threw |-> TRUE]
        ELSE
          LET transactionGroups ==
                IF isNewFormat
                THEN [g \in 1..Len(transactionsJson) |->
                        [multisig |-> IF In("multisig", transactionsJson[g])
                                      THEN transactionsJson[g].multisig
                                      ELSE UndefinedOwner,
                         transactions |->
                            [t \in 1..Len(transactionsJson[g].transactions.items) |->
                                parseTransaction(transactionsJson[g].transactions.items[t])]]]
                ELSE <<[multisig |-> UndefinedOwner,
                        transactions |-> [t \in 1..Len(transactionsJson) |->
                                             parseTransaction(transactionsJson[t])]]>>
          IN [threw |-> FALSE,
              contentWithoutTransactions |-> Document(content.body, NoSection),
              transactions |-> flatMap(transactionGroups),
              transactionGroups |-> transactionGroups,
              unwrapped |-> unwrap,
              format |-> IF isNewFormat THEN "canonical" ELSE "legacy"]

\* variant of extractTransactionsFromMarkdown: no catch block
extractTransactionsFromMarkdown_NoCatch(content) ==
    IF ~content.section.present THEN Fallback(content) ELSE TryExtract(content)

\* extractTransactionsFromMarkdown(content)
extractTransactionsFromMarkdown(content) ==
    IF ~content.section.present THEN Fallback(content)
    ELSE LET r == TryExtract(content)
         IN IF r.threw THEN Fallback(content) ELSE r

(***************************************************************************)
(* The editor and the viewers applying the parser.  The operation is held  *)
(* in m, its stage in pc and what it returned in result.                   *)
(***************************************************************************)
\* the shapes of the json block of a stored document with transactions s
Forms == {"none", "malformed", "notArray", "numbers", "badGroup",
          "flat", "nested", "twoArrays", "canonical", "nestedCanonical"}

FlatArray(s) == JArray([t \in 1..Len(s) |-> JTransaction(s[t])])

StoredDocument(s, form) ==
    Document("body",
        CASE form = "none" -> NoSection
          [] form = "malformed" -> Section(MalformedText)
          [] form = "notArray" -> Section(JSONstringify(JTransaction(TransactionData(1, UndefinedOwner))))
          [] form = "numbers" -> Section(JSONstringify(JArray(<<JNumber>>)))
          [] form = "badGroup" ->
                Section(JSONstringify(JArray(<<JGroup(<<"0","x","A">>, JNumber)>>)))
          [] form = "flat" -> Section(JSONstringify(FlatArray(s)))
          [] form = "nested" -> Section(JSONstringify(JArray(<<FlatArray(s)>>)))
          [] form = "twoArrays" -> Section(JSONstringify(JArray(<<FlatArray(s), FlatArray(s)>>)))
          [] form = "canonical" -> serializedTransactions(s)
          [] form = "nestedCanonical" ->
                IF Len(s) > 0
                THEN Section(JSONstringify(JArray(<<serializedTransactions(s).text.value>>)))
                ELSE NoSection)

ParserInit == Init

\* groupTransactionsByMultisig(transactions) for display or storage
GroupTransactions(s) ==
    /\ pc = "idle"
    /\ m = NoFrame
    /\ m' = [kind |-> "group", transactions |-> s]
    /\ result' = [groups |-> groupTransactionsByMultisig(s)]
    /\ pc' = "grouped"
    /\ UNCHANGED <<registry, cache, context, trace, writeCalls, uploads, log, toast,
                   notifications, before, effects, opsStarted, editor>>

\* the groups are flattened in group order and grouped again
Regroup ==
    /\ pc = "grouped"
    /\ result' = [groups |-> result.groups,
                  regrouped |-> groupTransactionsByMultisig(flatMap(result.groups))]
    /\ pc' = "regrouped"
    /\ UNCHANGED <<registry, cache, m, context, trace, writeCalls, uploads, log, toast,
                   notifications, before, effects, opsStarted, editor>>

\* handleSubmit: the transactions of the editor are grouped and serialised
\* into the content
Serialize(s) ==
    /\ pc = "idle"
    /\ m = NoFrame
    /\ m' = [kind |-> "submit", form |-> "canonical", transactions |-> s,
             groups |-> groupTransactionsByMultisig(s),
             content |-> Document("body", serializedTransactions(s))]
    /\ pc' = "document"
    /\ UNCHANGED <<registry, cache, result, context, trace, writeCalls, uploads, log,
                   toast, notifications, before, effects, opsStarted, editor>>

\* a stored document is opened
OpenDocument(s, form) ==
    /\ pc = "idle"
    /\ m = NoFrame
    /\ m' = [kind |-> "open", form |-> form, transactions |-> s,
             groups |-> groupTransactionsByMultisig(s),
             content |-> StoredDocument(s, form)]
    /\ pc' = "document"
    /\ UNCHANGED <<registry, cache, result, context, trace, writeCalls, uploads, log,
                   toast, notifications, before, effects, opsStarted, editor>>

\* extractTransactionsFromMarkdown(content) on the document at hand
Extract ==
    /\ pc = "document"
    /\ result' = extractTransactionsFromMarkdown(m.content)
    /\ pc' = "extracted"
    /\ UNCHANGED <<registry, cache, m, context, trace, writeCalls, uploads, log, toast,
                   notifications, before, effects, opsStarted, editor>>

\* the detection shared by the editor and TransactionGroup: JSON.parse, the
\* unwrap of a double-nested array, and the array after it; threw when
\* JSON.parse or the "in" operator throws
ParseBlock(text) ==
    IF ~text.json THEN [threw |-> TRUE]
    ELSE IF text.value.kind # "array" THEN [threw |-> FALSE, isArray |-> FALSE]
    ELSE
      LET parsed == text.value.items
          transactionsJson == IF IsDoubleNested(parsed) THEN parsed[1].items ELSE parsed
      IN IF Len(transactionsJson) > 0 /\ InThrows(transactionsJson[1])
         THEN [threw |-> TRUE]
         ELSE [threw |-> FALSE, isArray |-> TRUE, transactionsJson |-> transactionsJson,
               isNewFormat |-> IsNewFormat(transactionsJson)]

\* group.multisig of a parsed group object
MultisigOf(group) == IF In("multisig", group) THEN group.multisig ELSE UndefinedOwner

\* TransactionGroup.transactionGroups for transactions = [text]
TransactionGroupGroups(text) ==
    LET b == ParseBlock(text) IN
    IF b.threw THEN <<>>
    ELSE IF ~b.isArray THEN <<>>
    ELSE IF b.isNewFormat
    THEN IF \E g \in 1..Len(b.transactionsJson) : GroupThrows(b.transactionsJson[g])
         THEN <<>>
         ELSE [g \in 1..Len(b.transactionsJson) |->
                 [multisig |-> MultisigOf(b.transactionsJson[g]),
                  transactions |->
                     [t \in 1..Len(b.transactionsJson[g].transactions.items) |->
                         parseTransaction(b.transactionsJson[g].transactions.items[t])]]]
    ELSE IF \E t \in 1..Len(b.transactionsJson) : ParseTransactionThrows(b.transactionsJson[t])
         THEN <<>>
         ELSE groupTransactionsByMultisig(
                  [t \in 1..Len(b.transactionsJson) |-> parseTransaction(b.transactionsJson[t])])

\* the transactions of one parsed group with parsed.multisig = group.multisig
GroupTransactionsWithOwner(group) ==
    [t \in 1..Len(group.transactions.items) |->
        [parseTransaction(group.transactions.items[t]) EXCEPT !.multisig = MultisigOf(group)]]

RECURSIVE AllTransactions(_)
\* transactionsJson.forEach(group => group.transactions.forEach(... push))
AllTransactions(groups) ==
    IF groups = <<>> THEN <<>>
    ELSE GroupTransactionsWithOwner(Head(groups)) \o AllTransactions(Tail(groups))

\* the transactions state after the initialisation effect of the editor for a
\* proposal whose content has the json block text
EditorInitTransactions(text) ==
    LET b == ParseBlock(text) IN
    IF b.threw THEN <<>>
    ELSE IF ~b.isArray THEN <<>>
    ELSE IF b.isNewFormat
    THEN IF \E g \in 1..Len(b.transactionsJson) : GroupThrows(b.transactionsJson[g])
         THEN <<>>
         ELSE AllTransactions(b.transactionsJson)
    ELSE IF \E t \in 1..Len(b.transactionsJson) : ParseTransactionThrows(b.transactionsJson[t])
         THEN <<>>
         ELSE [t \in 1..Len(b.transactionsJson) |-> parseTransaction(b.transactionsJson[t])]

\* the document at hand is read by the three consumers of the json block: the
\* parser, the editor (whose list is shown grouped) and TransactionGroup
Consume ==
    /\ pc = "document"
    /\ m.content.section.present
    /\ result' = [parser |-> extractTransactionsFromMarkdown(m.content).transactionGroups,
                  editor |-> groupTransactionsByMultisig(
                                 EditorInitTransactions(m.content.section.text)),
                  viewer |-> TransactionGroupGroups(m.content.section.text)]
    /\ pc' = "consumed"
    /\ UNCHANGED <<registry, cache, m, context, trace, writeCalls, uploads, log, toast,
                   notifications, before, effects, opsStarted, editor>>

RECURSIVE getGlobalIndex(_, _, _)
\* getGlobalIndex(groupIndex, txIndexInGroup) over transactionGroups, indexes
\* counted from 0
getGlobalIndex(transactionGroups, groupIndex, txIndexInGroup) ==
    IF groupIndex = 0 THEN txIndexInGroup
    ELSE Len(transactionGroups[groupIndex].transactions)
            + getGlobalIndex(transactionGroups, groupIndex - 1, txIndexInGroup)

\* transactions.filter((_, i) => i !== index), index counted from 0
handleDeleteTransaction(transactions, index) ==
    LET kept == {i \in 1..Len(transactions) : i # index + 1}
        Nth(n) == CHOOSE i \in kept : Cardinality({j \in kept : j <= i}) = n
    IN [n \in 1..Cardinality(kept) |-> transactions[Nth(n)]]

\* the delete button of transaction txIndex of group groupIndex of the grouped
\* view is pressed (both counted from 1 here): onDelete(globalIndex)
PressDelete(groupIndex, txIndex) ==
    /\ pc = "grouped"
    /\ groupIndex \in 1..Len(result.groups)
    /\ txIndex \in 1..Len(result.groups[groupIndex].transactions)
    /\ LET globalIndex == getGlobalIndex(result.groups, groupIndex - 1, txIndex - 1)
       IN result' = [groups |-> result.groups,
                     pressed |-> result.groups[groupIndex].transactions[txIndex],
                     globalIndex |-> globalIndex,
                     transactions |-> handleDeleteTransaction(m.transactions, globalIndex)]
    /\ pc' = "deleted"
    /\ UNCHANGED <<registry, cache, m, context, trace, writeCalls, uploads, log, toast,
                   notifications, before, effects, opsStarted, editor>>

ParserNext ==
    \/ \E n \in 0..MaxTx : \E s \in TransactionLists(n) : GroupTransactions(s)
    \/ Regroup
    \/ \E n \in 0..MaxTx : \E s \in TransactionLists(n) : Serialize(s)
    \/ \E n \in 0..MaxTx : \E s \in TransactionLists(n), form \in Forms : OpenDocument(s, form)
    \/ Extract
    \/ Consume
    \/ \E groupIndex \in 1..MaxTx, txIndex \in 1..MaxTx : PressDelete(groupIndex, txIndex)

ParserSpec == ParserInit /\ [][ParserNext]_vars

(***************************************************************************)
(* ProposalEditor: handleSubmit around the create and update mutations,    *)
(* and the 30 second timeout of the saving state.                          *)
(***************************************************************************)
\* "Please connect your wallet"
TxtConnectWallet ==
    <<"P","l","e","a","s","e"," ","c","o","n","n","e","c","t"," ","y","o","u","r"," ",
      "w","a","l","l","e","t">>
\* "Transaction: ${txHash}"
TxtTransaction == <<"T","r","a","n","s","a","c","t","i","o","n",":">>

\* handleSubmit without a connected wallet
HandleSubmitNoWallet ==
    /\ pc = "idle"
    /\ ~editor.awaiting
    /\ opsStarted = 0
    /\ editor.error = NoMessage
    /\ editor' = [editor EXCEPT !.error = TxtConnectWallet]
    /\ UNCHANGED <<registry, cache, pc, m, result, context, trace, writeCalls, uploads,
                   log, toast, notifications, before, effects, opsStarted>>

\* the transactions lists a user builds in the editor
FormTransactions == {<<>>, <<[id |-> 1, multisig |-> <<"0","x","A">>]>>}
\* the values of the form fields a user enters
FormStates ==
    [title : Titles, chain : Chains, implementor : {"None"}, content : {"", "text"},
     transactions : FormTransactions]

\* qciContent of handleSubmit: the fields of the form that the hooks use
qciContent(form) ==
    [title |-> form.title, chain |-> form.chain, implementor |-> form.implementor,
     qci |-> 0]

\* the user changes form fields: onChange of the inputs, add and delete of
\* transactions
EditForm(form) ==
    /\ form # editor.form
    /\ editor' = [editor EXCEPT !.form = form]
    /\ UNCHANGED <<registry, cache, pc, m, result, context, trace, writeCalls, uploads,
                   log, toast, notifications, before, effects, opsStarted>>

\* the submit button: disabled={saving}
SubmitEnabled == ~editor.saving

\* handleSubmit up to its await; one submission is followed at a time
SubmitStart ==
    /\ SubmitEnabled
    /\ ~editor.awaiting
    /\ editor' = [saving |-> TRUE, error |-> NoMessage, success |-> NoMessage,
                  awaiting |-> TRUE, navigated |-> FALSE, timedOutInWait |-> FALSE,
                  form |-> editor.form]

\* handleSubmit of the editor of a new proposal: createQCIMutation.mutateAsync
HandleSubmitCreate(content) ==
    /\ SubmitStart
    /\ editor.form \in FormStates
    /\ content = qciContent(editor.form)
    /\ StartCreate(content)

\* handleSubmit of the editor of an existing proposal: updateQCIMutation.mutateAsync
HandleSubmitUpdate(qciNumber, content) ==
    /\ SubmitStart
    /\ editor.form \in FormStates
    /\ content = qciContent(editor.form)
    /\ StartUpdate(qciNumber, content, "undefined")

\* the timeout of the saving effect fires: success and error are those of the
\* render that armed it, both null while a submission is saving
SavingTimeout ==
    /\ editor.saving
    /\ editor' = [editor EXCEPT !.saving = FALSE,
                                !.error = IF editor.success = NoMessage /\ editor.error = NoMessage
                                          THEN TxtOperationTimedOut ELSE @,
                                !.timedOutInWait = @ \/ pc \in {"c_wait", "u_wait"}]
    /\ UNCHANGED <<registry, cache, pc, m, result, context, trace, writeCalls, uploads,
                   log, toast, notifications, before, effects, opsStarted>>

\* the await of handleSubmit resolves: toast, navigation, finally
HandleSubmitResolved ==
    /\ editor.awaiting
    /\ pc = "idle"
    /\ result.status = "success"
    /\ toast' = [kind |-> "success", text |-> m.kind]
    /\ editor' = IF m.kind = "update" \/ result.qciNumber > 0
                 THEN [editor EXCEPT !.navigated = TRUE, !.saving = FALSE,
                                     !.awaiting = FALSE]
                 ELSE [editor EXCEPT !.success = TxtTransaction, !.saving = FALSE,
                                     !.awaiting = FALSE,
                                     !.form = [@ EXCEPT !.title = "", !.content = "",
                                                        !.implementor = "None"]]
    /\ UNCHANGED <<registry, cache, pc, m, result, context, trace, writeCalls, uploads,
                   log, notifications, before, effects, opsStarted>>

\* a catch that also clears the form
HandleSubmitRejected_ClearsForm ==
    /\ editor.awaiting
    /\ pc = "idle"
    /\ result.status = "error"
    /\ editor' = [editor EXCEPT !.error = result.error, !.saving = FALSE,
                                !.awaiting = FALSE, !.form = InitForm]
    /\ UNCHANGED <<registry, cache, pc, m, result, context, trace, writeCalls, uploads,
                   log, toast, notifications, before, effects, opsStarted>>

\* the await of handleSubmit rejects: catch, finally
HandleSubmitRejected ==
    /\ editor.awaiting
    /\ pc = "idle"
    /\ result.status = "error"
    /\ LET errorMessage == IF includes(result.error, PatContentExists)
                           THEN TxtIdenticalContent ELSE result.error
       IN editor' = [editor EXCEPT !.error = errorMessage, !.saving = FALSE,
                                   !.awaiting = FALSE]
    /\ UNCHANGED <<registry, cache, pc, m, result, context, trace, writeCalls, uploads,
                   log, toast, notifications, before, effects, opsStarted>>

EditorNext ==
    \/ HandleSubmitNoWallet
    \/ \E form \in FormStates : EditForm(form)
    \/ \E content \in Contents : HandleSubmitCreate(content)
    \/ \E q \in 1..MaxId, content \in Contents : HandleSubmitUpdate(q, content)
    \/ SavingTimeout
    \/ HandleSubmitResolved
    \/ HandleSubmitRejected
    \/ CreateHash
    \/ CreateWrite
    \/ CreateWait
    \/ CreateUpload
    \/ CreateOnSuccess
    \/ UpdateHash
    \/ UpdateWrite
    \/ UpdateWait
    \/ UpdateUpload
    \/ UpdateReadVersion
    \/ UpdateOnSuccess

EditorSpec == Init /\ [][EditorNext]_vars

(***************************************************************************)
(* useContractABI: the query function with its 15 second timer, the retry  *)
(* and retryDelay options, over the results of fetchContractABI.           *)
(***************************************************************************)
\* "Invalid contract address format. Must be a valid Ethereum address (0x...)"
ErrInvalidContractAddress ==
    <<"I","n","v","a","l","i","d"," ","c","o","n","t","r","a","c","t"," ","a","d","d","r","e","s","s",
      " ","f","o","r","m","a","t",".">>
\* "Contract source code is not verified on this explorer. Please paste ABI manually."
ErrNotVerified ==
    <<"C","o","n","t","r","a","c","t"," ","s","o","u","r","c","e"," ","c","o","d","e"," ","i","s"," ",
      "n","o","t"," ","v","e","r","i","f","i","e","d"," ","o","n"," ","t","h","i","s"," ","e","x","p",
      "l","o","r","e","r",".">>
\* "Invalid address format."
ErrInvalidAddressFormat ==
    <<"I","n","v","a","l","i","d"," ","a","d","d","r","e","s","s"," ","f","o","r","m","a","t",".">>
\* "data.result of a NOTOK response, e.g. Max rate limit reached"
ErrNotOk ==
    <<"M","a","x"," ","r","a","t","e"," ","l","i","m","i","t"," ","r","e","a","c","h","e","d">>
\* "HTTP error ${response.status}: ${response.statusText}"
ErrHttp ==
    <<"H","T","T","P"," ","e","r","r","o","r"," ","5","0","0">>
\* "Request was cancelled or timed out after 15 seconds."
ErrAborted ==
    <<"R","e","q","u","e","s","t"," ","w","a","s"," ","c","a","n","c","e","l","l","e","d"," ","o","r",
      " ","t","i","m","e","d"," ","o","u","t"," ","a","f","t","e","r"," ","1","5"," ","s","e","c","o",
      "n","d","s",".">>
\* "Network error: Unable to reach ${explorerConfig.name} API. ..."
ErrNetwork ==
    <<"N","e","t","w","o","r","k"," ","e","r","r","o","r",":"," ","U","n","a","b","l","e"," ","t","o",
      " ","r","e","a","c","h">>
\* "not verified"
PatNotVerified ==
    <<"n","o","t"," ","v","e","r","i","f","i","e","d">>
\* "Invalid address"
PatInvalidAddress ==
    <<"I","n","v","a","l","i","d"," ","a","d","d","r","e","s","s">>
\* "cancelled"
PatCancelled ==
    <<"c","a","n","c","e","l","l","e","d">>
\* "timed out"
PatTimedOut ==
    <<"t","i","m","e","d"," ","o","u","t">>

\* what one fetchContractABIWithMetadata call ends with
FetchCauses ==
    {"success", "invalidAddress", "notVerified", "explorerInvalidAddress", "notOk",
     "http", "aborted", "network"}
\* the causes the retry option is meant not to retry
NonRetryableCauses == {"invalidAddress", "notVerified", "explorerInvalidAddress", "aborted"}

\* result.error of fetchContractABI for each cause of failure
ErrorOf(cause) ==
    CASE cause = "invalidAddress" -> ErrInvalidContractAddress
      [] cause = "notVerified" -> ErrNotVerified
      [] cause = "explorerInvalidAddress" -> ErrInvalidAddressFormat
      [] cause = "notOk" -> ErrNotOk
      [] cause = "http" -> ErrHttp
      [] cause = "aborted" -> ErrAborted
      [] cause = "network" -> ErrNetwork

\* the failures allowed before the retry option of useContractABI gives up
AbiRetryLimit == 2

\* retry: (failureCount, error) => ... of useContractABI
abiRetry(failureCount, msg) ==
    IF \/ includes(msg, PatNotVerified)
       \/ includes(msg, PatInvalidAddress)
       \/ includes(msg, PatCancelled)
       \/ includes(msg, PatTimedOut)
    THEN FALSE
    ELSE failureCount < AbiRetryLimit

Min(a, b) == IF a < b THEN a ELSE b

\* retryDelay: (attemptIndex) => Math.min(1000 * 2 ** attemptIndex, 10000)
retryDelay(attemptIndex) == Min(1000 * 2 ^ attemptIndex, 10000)

AbiInit == Init

\* the query of useContractABI starts for an address; signal: the query
\* function context carries a signal
AbiQueryStart(addressValid, signal) ==
    /\ pc = "idle"
    /\ opsStarted < MaxOps
    /\ opsStarted' = opsStarted + 1
    /\ m' = [kind |-> "abi", addressValid |-> addressValid, signal |-> signal,
             failureCount |-> 0, delays |-> <<>>, causes |-> <<>>,
             timer |-> "none", timeoutAborted |-> FALSE, signalAborted |-> FALSE,
             elapsed15 |-> FALSE]
    /\ result' = [status |-> "none"]
    /\ pc' = "a_queryFn"
    /\ UNCHANGED <<registry, cache, context, trace, writeCalls, uploads, log, toast,
                   notifications, before, effects, editor>>

\* queryFn up to its await: the timer is armed, the signal is chosen
AbiQueryFn ==
    /\ pc = "a_queryFn"
    /\ m' = [m EXCEPT !.timer = "armed", !.timeoutAborted = FALSE, !.elapsed15 = FALSE]
    /\ pc' = "a_fetch"
    /\ UNCHANGED <<registry, cache, result, context, trace, writeCalls, uploads, log,
                   toast, notifications, before, effects, opsStarted, editor>>

\* const combinedSignal = signal || timeoutController.signal
CombinedSignalAborted(f) == IF f.signal THEN f.signalAborted ELSE f.timeoutAborted

\* 15 seconds after queryFn started: setTimeout(() => timeoutController.abort())
AbiTimerFires ==
    /\ pc = "a_fetch"
    /\ m.timer = "armed"
    /\ m' = [m EXCEPT !.timer = "fired", !.timeoutAborted = TRUE, !.elapsed15 = TRUE]
    /\ UNCHANGED <<registry, cache, pc, result, context, trace, writeCalls, uploads, log,
                   toast, notifications, before, effects, opsStarted, editor>>

\* the query is cancelled: the signal of the query function context aborts
AbiQueryCancelled ==
    /\ pc = "a_fetch"
    /\ m.signal
    /\ ~m.signalAborted
    /\ m' = [m EXCEPT !.signalAborted = TRUE]
    /\ UNCHANGED <<registry, cache, pc, result, context, trace, writeCalls, uploads, log,
                   toast, notifications, before, effects, opsStarted, editor>>

\* the causes fetchContractABIWithMetadata can end with in frame f
PossibleCauses(f) ==
    IF CombinedSignalAborted(f) THEN {"aborted"}
    ELSE IF ~f.addressValid THEN {"invalidAddress"}
    ELSE FetchCauses \ {"invalidAddress", "aborted"}

\* the await of queryFn settles: finally clears the timer; on a failure the
\* retry option decides and retryDelay gives the delay before the next run
AbiFetchSettles(cause) ==
    /\ pc = "a_fetch"
    /\ cause \in PossibleCauses(m)
    /\ LET f == [m EXCEPT !.timer = IF @ = "armed" THEN "cleared" ELSE @,
                          !.causes = Append(@, cause)]
       IN IF cause = "success"
          THEN /\ m' = f
               /\ result' = [status |-> "success"]
               /\ pc' = "idle"
          ELSE IF abiRetry(m.failureCount, ErrorOf(cause))
               THEN /\ m' = [f EXCEPT !.failureCount = @ + 1,
                                      !.delays = Append(@, retryDelay(m.failureCount))]
                    /\ result' = result
                    /\ pc' = "a_queryFn"
               ELSE /\ m' = f
                    /\ result' = [status |-> "error", error |-> ErrorOf(cause)]
                    /\ pc' = "idle"
    /\ UNCHANGED <<registry, cache, context, trace, writeCalls, uploads, log, toast,
                   notifications, before, effects, opsStarted, editor>>

AbiNext ==
    \/ \E addressValid \in BOOLEAN, signal \in BOOLEAN : AbiQueryStart(addressValid, signal)
    \/ AbiQueryFn
    \/ AbiTimerFires
    \/ AbiQueryCancelled
    \/ \E cause \in FetchCauses : AbiFetchSettles(cause)

AbiSpec == AbiInit /\ [][AbiNext]_vars

(***************************************************************************)
(* Overlapping status changes: each statusMutation.mutate call is its own  *)
(* mutation with its own context; pc, m, context and result are held per   *)
(* mutation.  The mutation function is one step here: it settles.          *)
(***************************************************************************)
\* status changes in flight at the same time
MaxOverlap == 2
Mutations == 1..MaxOverlap

OverlapInit ==
    /\ registry = InitRegistry
    /\ cache = [k \in AllKeys |-> NoEntry]
    /\ pc = [o \in Mutations |-> "idle"]
    /\ m = [o \in Mutations |-> NoFrame]
    /\ result = [o \in Mutations |-> NoResult]
    /\ context = [o \in Mutations |-> NoContext]
    /\ trace = <<>>
    /\ writeCalls = <<>>
    /\ uploads = <<>>
    /\ log = {}
    /\ toast = NoToast
    /\ notifications = <<>>
    /\ effects = <<>>
    /\ before = <<>>
    /\ opsStarted = 0
    /\ editor = InitEditor

\* the first fetch of a list query lands before the first status change
OverlapFetchList(k) ==
    /\ \A o \in Mutations : pc[o] = "idle"
    /\ ~cache[k].present
    /\ cache' = [cache EXCEPT ![k] = Fetched(k, IF k = K_api THEN "wrapped" ELSE "array")]
    /\ UNCHANGED <<registry, pc, m, result, context, trace, writeCalls, uploads,
                   log, toast, notifications, effects, before, opsStarted, editor>>

\* onMutate of mutation o: snapshot of ["qcis", "api"], optimistic patch
OverlapOnMutate(o, qciNumber, newStatus) ==
    /\ pc[o] = "idle"
    /\ \A p \in Mutations : p < o => pc[p] # "idle"
    /\ qciNumber \in 1..registry.count
    /\ m' = [m EXCEPT ![o] = [kind |-> "status", qciNumber |-> qciNumber,
                              newStatus |-> newStatus]]
    /\ toast' = [kind |-> "loading", text |-> newStatus]
    /\ context' = [context EXCEPT ![o] = [set |-> TRUE,
                                          previousData |-> getQueryData(cache, K_api),
                                          qciNumber |-> qciNumber]]
    /\ cache' = OnMutateCache(cache, qciNumber, newStatus)
    /\ pc' = [pc EXCEPT ![o] = "pending"]
    /\ UNCHANGED <<registry, result, trace, writeCalls, uploads, log, notifications,
                   effects, before, opsStarted, editor>>

\* mutationFn of mutation o settles: the status is written and confirmed, or
\* the mutation function fails for good
OverlapSettle(o) ==
    /\ pc[o] = "pending"
    /\ \/ /\ registry' = Mined(registry, "updateStatus", m[o].qciNumber, m[o].newStatus)
          /\ result' = [result EXCEPT ![o] = [status |-> "success"]]
          /\ pc' = [pc EXCEPT ![o] = "onSuccess"]
       \/ \E msg \in {MsgReverted} :
          /\ registry' = registry
          /\ result' = [result EXCEPT ![o] = [status |-> "error", error |-> msg]]
          /\ pc' = [pc EXCEPT ![o] = "onError"]
    /\ UNCHANGED <<cache, m, context, trace, writeCalls, uploads, log, toast,
                   notifications, effects, before, opsStarted, editor>>

\* onError of mutation o: rollback to its snapshot, error toast
OverlapOnError(o) ==
    /\ pc[o] = "onError"
    /\ cache' = IF context[o].previousData # Undefined
                THEN setQueryData(cache, K_api, context[o].previousData)
                ELSE cache
    /\ toast' = [kind |-> "error", text |-> ErrorMessage(result[o].error)]
    /\ pc' = [pc EXCEPT ![o] = "onSettled"]
    /\ UNCHANGED <<registry, m, result, context, trace, writeCalls, uploads, log,
                   notifications, effects, before, opsStarted, editor>>

\* onSuccess of mutation o
OverlapOnSuccess(o) ==
    /\ pc[o] = "onSuccess"
    /\ toast' = [kind |-> "success", text |-> m[o].newStatus]
    /\ cache' = invalidateQueries(cache, <<"qcis">>)
    /\ pc' = [pc EXCEPT ![o] = "onSettled"]
    /\ UNCHANGED <<registry, m, result, context, trace, writeCalls, uploads, log,
                   notifications, effects, before, opsStarted, editor>>

\* onSettled of mutation o
OverlapOnSettled(o) ==
    /\ pc[o] = "onSettled"
    /\ cache' = invalidateQueries(cache, K_api)
    /\ pc' = [pc EXCEPT ![o] = "done"]
    /\ UNCHANGED <<registry, m, result, context, trace, writeCalls, uploads, log,
                   toast, notifications, effects, before, opsStarted, editor>>

\* the refetch of an invalidated list query lands
OverlapRefetchList(k) ==
    /\ cache[k].present
    /\ cache[k].stale
    /\ cache' = [cache EXCEPT ![k] = Fetched(k, cache[k].data.shape)]
    /\ UNCHANGED <<registry, pc, m, result, context, trace, writeCalls, uploads,
                   log, toast, notifications, effects, before, opsStarted, editor>>

OverlapNext ==
    \/ \E k \in ListKeys : OverlapFetchList(k)
    \/ \E o \in Mutations, q \in 1..MaxId : OverlapOnMutate(o, q, "Ready for Snapshot")
    \/ \E o \in Mutations : OverlapSettle(o)
    \/ \E o \in Mutations : OverlapOnError(o)
    \/ \E o \in Mutations : OverlapOnSuccess(o)
    \/ \E o \in Mutations : OverlapOnSettled(o)
    \/ \E k \in ListKeys : OverlapRefetchList(k)

OverlapSpec == OverlapInit /\ [][OverlapNext]_vars

(***************************************************************************)
(* The options of the create, update and link hooks: the hook's own        *)
(* options followed by the spread of the caller's mutationOptions.  The    *)
(* mutation function is one step here: it settles.                         *)
(***************************************************************************)
Hooks == {"useCreateQCI", "useUpdateQCI", "useLinkSnapshotProposal",
          "useUpdateSnapshotProposal"}
\* the callbacks a caller can define in mutationOptions
OptionKeys == {"onSuccess", "onError", "onSettled"}
\* mutationOptions objects: each defined member is a function of the caller
MutationOptions == UNION {[S -> {"caller"}] : S \in SUBSET OptionKeys}
\* the members the hook writes before the spread
HookOptions == [mutationFn |-> "hook", onSuccess |-> "hook"]

\* { ...a, ...b }: the members of b replace those of a
Spread(a, b) == b @@ a

\* useMutation({ mutationFn, onSuccess, ...mutationOptions })
UseMutationOptions(mutationOptions) == Spread(HookOptions, mutationOptions)

\* the queryClient calls of the onSuccess the hook defines
HookOnSuccess(hook, c, q, res) ==
    IF hook = "useCreateQCI"
    THEN setQueryData(invalidateQueries(c, <<"qcis">>), K_qci(res.qciNumber),
                      [qciNumber |-> res.qciNumber, ipfsUrl |-> "ipfs", source |-> "blockchain"])
    ELSE invalidateQueries(invalidateQueries(c, <<"qcis">>), <<"qci", q>>)

\* a component uses hook with mutationOptions and calls mutate
OptionsMutate(hook, mutationOptions, q) ==
    /\ pc = "idle"
    /\ opsStarted < MaxOps
    /\ opsStarted' = opsStarted + 1
    /\ q \in 1..registry.count
    /\ m' = [kind |-> "options", hook |-> hook, qciNumber |-> q,
             options |-> UseMutationOptions(mutationOptions)]
    /\ result' = NoResult
    /\ trace' = <<>>
    /\ effects' = <<>>
    /\ pc' = "o_mutationFn"
    /\ UNCHANGED <<registry, cache, context, writeCalls, uploads, log, toast,
                   notifications, before, editor>>

\* the mutation function settles
OptionsSettle ==
    /\ pc = "o_mutationFn"
    /\ \/ /\ registry' = Mined(registry,
                               CASE m.hook = "useCreateQCI" -> "createQCI"
                                 [] m.hook = "useUpdateQCI" -> "updateQCI"
                                 [] OTHER -> "linkSnapshotProposal",
                               m.qciNumber, "0xabc")
          /\ result' = [status |-> "success",
                        qciNumber |-> IF m.hook = "useCreateQCI"
                                      THEN registry.count + 1 ELSE m.qciNumber]
          /\ pc' = "o_onSuccess"
       \/ /\ registry' = registry
          /\ result' = [status |-> "error", error |-> MsgReverted]
          /\ pc' = "o_onError"
    /\ UNCHANGED <<cache, m, context, trace, writeCalls, uploads, log, toast,
                   notifications, effects, before, opsStarted, editor>>

\* the onSuccess member of the options runs: the hook's or the caller's
OptionsOnSuccess ==
    /\ pc = "o_onSuccess"
    /\ trace' = Append(trace, <<"onSuccess", m.options.onSuccess>>)
    /\ IF m.options.onSuccess = "hook"
       THEN /\ cache' = HookOnSuccess(m.hook, cache, m.qciNumber, result)
            /\ effects' = Append(effects, [op |-> "invalidateQueries", key |-> <<"qcis">>])
       ELSE UNCHANGED <<cache, effects>>
    /\ pc' = "o_onSettled"
    /\ UNCHANGED <<registry, m, result, context, writeCalls, uploads, log, toast,
                   notifications, before, opsStarted, editor>>

\* the onError member runs when the caller defined one
OptionsOnError ==
    /\ pc = "o_onError"
    /\ trace' = IF "onError" \in DOMAIN m.options
                THEN Append(trace, <<"onError", m.options.onError>>) ELSE trace
    /\ pc' = "o_onSettled"
    /\ UNCHANGED <<registry, cache, m, result, context, writeCalls, uploads, log, toast,
                   notifications, effects, before, opsStarted, editor>>

\* the onSettled member runs when the caller defined one
OptionsOnSettled ==
    /\ pc = "o_onSettled"
    /\ trace' = IF "onSettled" \in DOMAIN m.options
                THEN Append(trace, <<"onSettled", m.options.onSettled>>) ELSE trace
    /\ pc' = "idle"
    /\ UNCHANGED <<registry, cache, m, result, context, writeCalls, uploads, log, toast,
                   notifications, effects, before, opsStarted, editor>>

OptionsNext ==
    \/ \E k \in ListKeys : FetchList(k)
    \/ \E q \in 1..MaxId : FetchDetail(q)
    \/ \E hook \in Hooks, mutationOptions \in MutationOptions, q \in 1..MaxId :
          OptionsMutate(hook, mutationOptions, q)
    \/ OptionsSettle
    \/ OptionsOnSuccess
    \/ OptionsOnError
    \/ OptionsOnSettled

OptionsSpec == Init /\ [][OptionsNext]_vars

(***************************************************************************)
(* useContractHistory: add, remove and clear mutations over the cached     *)
(* history.  m holds the mutate calls in call order, each with its stage:  *)
(* called (mutationFn has not run), computed (mutationFn returned its new  *)
(* history), done (onSuccess has written it).                              *)
(***************************************************************************)
\* mutate calls of one session
MaxCalls == 3
\* mutations that are not done at the same time
MaxPending == 2

MAX_HISTORY_SIZE == 50

\* queryKeys.contractHistory()
K_history == <<"contractHistory">>

\* contracts a user works with: one address in two spellings, a second
\* address, and the first address on a second chain
HistoryContracts ==
    {[address |-> <<"0","x","A">>, chain |-> "Polygon"],
     [address |-> <<"0","x","a">>, chain |-> "Polygon"],
     [address |-> <<"0","x","B">>, chain |-> "Polygon"],
     [address |-> <<"0","x","A">>, chain |-> "Base"]}

\* the variables of clearHistory(): none
NoContract == [address |-> <<>>, chain |-> ""]

\* c.address.toLowerCase() === address.toLowerCase() && c.chain === chain
SameContract(c, address, chain) ==
    toLowerCase(c.address) = toLowerCase(address) /\ c.chain = chain

\* currentHistory.findIndex(...), counted from 1; 0 when there is none
findIndex(currentHistory, contract) ==
    LET hits == {i \in 1..Len(currentHistory) :
                    SameContract(currentHistory[i], contract.address, contract.chain)}
    IN IF hits = {} THEN 0 ELSE CHOOSE i \in hits : \A j \in hits : i <= j

\* mutationFn of addMutation
addMutationFn(currentHistory, contract) ==
    LET existingIndex == findIndex(currentHistory, contract)
        newHistory ==
            IF existingIndex >= 1
            THEN <<contract>> \o SubSeq(currentHistory, 1, existingIndex - 1)
                              \o SubSeq(currentHistory, existingIndex + 1, Len(currentHistory))
            ELSE <<contract>> \o currentHistory
    IN IF Len(newHistory) > MAX_HISTORY_SIZE
       THEN SubSeq(newHistory, 1, MAX_HISTORY_SIZE)
       ELSE newHistory

\* mutationFn of removeMutation
removeMutationFn(currentHistory, contract) ==
    LET Keep(c) == ~SameContract(c, contract.address, contract.chain)
    IN SelectSeq(currentHistory, Keep)

\* the new history a mutation function returns
MutationFn(op, currentHistory, contract) ==
    CASE op = "add" -> addMutationFn(currentHistory, contract)
      [] op = "remove" -> removeMutationFn(currentHistory, contract)
      [] op = "clear" -> <<>>

\* queryClient.getQueryData(queryKeys.contractHistory()) || []
CurrentHistory(c) ==
    IF getQueryData(c, K_history) = Undefined THEN <<>> ELSE getQueryData(c, K_history).list

\* initialData: []
HistoryInit ==
    /\ registry = InitRegistry
    /\ cache = [k \in {K_history} |-> [present |-> TRUE, data |-> [list |-> <<>>],
                                       stale |-> FALSE]]
    /\ pc = "idle"
    /\ m = <<>>
    /\ result = NoResult
    /\ context = NoContext
    /\ trace = <<>>
    /\ writeCalls = <<>>
    /\ uploads = <<>>
    /\ log = {}
    /\ toast = NoToast
    /\ notifications = <<>>
    /\ effects = <<>>
    /\ before = <<>>
    /\ opsStarted = 0
    /\ editor = InitEditor

Pending == {i \in 1..Len(m) : m[i].stage # "done"}

\* addToHistory(contract), removeFromHistory({ address, chain }) or
\* clearHistory() is called
HistoryMutate(op, contract) ==
    /\ Len(m) < MaxCalls
    /\ Cardinality(Pending) < MaxPending
    /\ m' = Append(m, [op |-> op, contract |-> contract, stage |-> "called",
                       newHistory |-> <<>>])
    /\ UNCHANGED <<registry, cache, pc, result, context, trace, writeCalls, uploads, log,
                   toast, notifications, effects, before, opsStarted, editor>>

\* the mutation function of call i runs: it reads the cached history and
\* returns the new one; mutation functions run in call order
HistoryMutationFn(i) ==
    /\ i \in 1..Len(m)
    /\ m[i].stage = "called"
    /\ \A j \in 1..(i - 1) : m[j].stage # "called"
    /\ m' = [m EXCEPT ![i].stage = "computed",
                      ![i].newHistory = MutationFn(m[i].op, CurrentHistory(cache),
                                                   m[i].contract)]
    /\ UNCHANGED <<registry, cache, pc, result, context, trace, writeCalls, uploads, log,
                   toast, notifications, effects, before, opsStarted, editor>>

\* onSuccess of call i: setQueryData(queryKeys.contractHistory(), newHistory)
HistoryOnSuccess(i) ==
    /\ i \in 1..Len(m)
    /\ m[i].stage = "computed"
    /\ \A j \in 1..(i - 1) : m[j].stage = "done"
    /\ cache' = setQueryData(cache, K_history, [list |-> m[i].newHistory])
    /\ m' = [m EXCEPT ![i].stage = "done"]
    /\ UNCHANGED <<registry, pc, result, context, trace, writeCalls, uploads, log,
                   toast, notifications, effects, before, opsStarted, editor>>

HistoryNext ==
    \/ \E contract \in HistoryContracts : HistoryMutate("add", contract)
    \/ \E contract \in HistoryContracts : HistoryMutate("remove", contract)
    \/ HistoryMutate("clear", NoContract)
    \/ \E i \in 1..MaxCalls : HistoryMutationFn(i)
    \/ \E i \in 1..MaxCalls : HistoryOnSuccess(i)

HistorySpec == HistoryInit /\ [][HistoryNext]_vars

(***************************************************************************)
(* Properties                                                              *)
(***************************************************************************)
\* the positions of event e in the trace of the mutation in flight
At(e) == {i \in 1..Len(trace) : trace[i] = e}
Has(f) == f \in DOMAIN m
IsCreateOrUpdate == m.kind \in {"create", "update"}
\* the upload returned an identifier other than the pre-computed one
Mismatch == IsCreateOrUpdate /\ Has("actualCID") /\ m.actualCID # m.expectedCID
\* a step after the confirmation threw
LaterStepThrew ==
    \/ At("uploadErr") # {}
    \/ At("readErr") # {}
    \/ \E i \in At("writeStatus") : trace[i + 1] \in {"writeErr", "writeRejected"}
\* the main on-chain call (createQCI / updateQCI) or its confirmation wait failed
ChainStageFailed ==
    \/ \E i \in At("writeContract") : trace[i + 1] \in {"writeErr", "writeRejected"}
    \/ At("receiptErr") # {}

C2_CreateHashesFirst ==
    m.kind = "create" =>
        /\ \A i \in At("writeContract") \cup At("upload") :
              \E a \in At("calculateCID"), b \in At("calculateContentHash") : a < i /\ b < i
        /\ \A i \in 1..Len(writeCalls) :
              /\ writeCalls[i].functionName = "createQCI"
              /\ writeCalls[i].args[3] = calculateContentHash(m.content)
              /\ writeCalls[i].args[4] =
                    ipfsUrlOf(calculateCID(formatQCIContent(m.content)))
              /\ writeCalls[i].args[3] = m.contentHash
              /\ writeCalls[i].args[4] = ipfsUrlOf(m.expectedCID)

C2_Witness ==
    /\ m.kind = "create"
    /\ Len(writeCalls) = 1
    /\ Len(uploads) = 1

\* C3: one invocation of a write operation submits each state-changing
\* on-chain call at most once, whatever error the submission ends in.
C3_SubmittedAtMostOnce ==
    \A f \in {"createQCI", "updateQCI", "updateStatus", "linkSnapshotProposal"} :
        Cardinality({i \in 1..Len(writeCalls) : writeCalls[i].functionName = f}) <= 1

\* C4: when the signer rejects the on-chain call of a status change, the
\* mutation fails at once and the call is not submitted again, whatever the
\* failure count.
C4_RejectionIsNotRetried ==
    (m.kind = "status" /\ At("writeRejected") # {}) =>
        /\ At("writeRejected") = {Len(trace)}
        /\ pc \in {"s_onError", "s_onSettled", "idle"}
        /\ result.status = "error"
        /\ result.error \in SignerRejectionMessages
        /\ Len(writeCalls) = m.failureCount + 1

C4_Witness ==
    /\ m.kind = "status"
    /\ At("writeRejected") # {}
    /\ m.failureCount = RetryLimit
    /\ pc = "s_onError"

\* C5 as stated: a create or update ends in failure only from the on-chain
\* write or the confirmation stage.
C5_FailsOnlyBeforeConfirmation ==
    (IsCreateOrUpdate /\ result.status = "error") =>
        result.stage \in {"write", "confirmation"}

\* C6: an identifier returned by the upload that differs from the
\* pre-computed one is only logged: it neither fails the create or update nor
\* stops the steps that remain.
C6_MismatchIsNotFatal ==
    Mismatch =>
        /\ "CID mismatch" \in log
        /\ At("uploadErr") = {}
        /\ m.kind = "create" =>
              (result.status = "success" /\ pc \in {"c_onSuccess", "idle"})
        /\ m.kind = "update" =>
              /\ pc \in {"u_readStatus", "u_writeStatus", "u_readVersion",
                          "u_onSuccess", "idle"}
              /\ pc \in {"u_onSuccess", "idle"} => At("readContract") # {}
              /\ result.status = "error" =>
                    /\ LaterStepThrew
                    /\ result.stage \in {"statusRead", "statusWrite", "versionRead"}
              /\ (pc = "idle" /\ ~LaterStepThrew) => result.status = "success"

C6_Witness ==
    /\ Mismatch
    /\ m.kind = "update"
    /\ At("writeStatus") # {}
    /\ pc = "idle"
    /\ result.status = "success"

\* C7: when the upload returns an identifier other than the pre-computed one,
\* the pointer the operation reports, and the cache entry written from it, is
\* the one the upload returned.
C7_ReportsUploadedPointer ==
    (Mismatch /\ result.status = "success") =>
        /\ result.ipfsUrl = ipfsUrlOf(m.actualCID)
        /\ (m.kind = "create" /\ pc = "idle") =>
              cache[K_qci(result.qciNumber)].data.ipfsUrl = ipfsUrlOf(m.actualCID)

\* the list of a cached list representation
ListOf(entry) == entry.data.list
\* cached list k holds proposal q
Contains(k, q) ==
    /\ cache[k].present
    /\ \E i \in DOMAIN ListOf(cache[k]) : ListOf(cache[k])[i].qciNumber = q

\* C8: from the start of a status change until its on-chain call resolves,
\* every cached list that contains the proposal shows the new status for it,
\* and the entries of the other proposals are as before.
C8_EveryListIsPatched ==
    (m.kind = "status" /\ pc \in {"s_write", "s_wait"}) =>
        \A k \in ListKeys :
            Contains(k, m.qciNumber) =>
                \A i \in DOMAIN ListOf(cache[k]) :
                    IF ListOf(cache[k])[i].qciNumber = m.qciNumber
                    THEN ListOf(cache[k])[i].status = m.newStatus
                    ELSE ListOf(cache[k])[i] = ListOf(before[k])[i]

\* the lists onMutate patched for the mutation in flight
Patched == {k \in {K_api, K_full} : before[k].present}

\* C9: when a status change fails, every list that was patched for it is back
\* at the value it had before the operation started.
C9_EveryPatchIsRolledBack ==
    (m.kind = "status" /\ pc = "s_onSettled" /\ result.status = "error") =>
        \A k \in Patched : cache[k].data = before[k].data

\* C10: when the signer rejects a status change, the only cache effect is the
\* rollback (no invalidation of the list queries), and the error is
\* classified as a signer rejection.
C10_RejectionOnlyRollsBack ==
    (m.kind = "status" /\ pc = "idle" /\ result.status = "error"
        /\ At("writeRejected") # {}) =>
        /\ \A i \in 1..Len(effects) : effects[i].op # "invalidateQueries"
        /\ \A k \in ListKeys : cache[k].present => ~cache[k].stale
        /\ toast = [kind |-> "error", text |-> TxtTransactionCancelled]

\* the proposal the mutation that is ending was about
Affected == IF m.kind = "create" THEN result.qciNumber ELSE m.qciNumber
\* the cached cluster of proposal q: its registry entry and the lists
Cluster(q) == {K_qci(q)} \cup ListKeys

\* C11: when a state-changing operation on a proposal ends in success, every
\* cache entry of the proposal's cluster (registry entry, lists) that is
\* present is invalidated or removed; none is left fresh.
C11_ClusterInvalidatedTogether ==
    [][(pc # "idle" /\ pc' = "idle" /\ result'.status = "success") =>
          \A k \in Cluster(Affected)' : cache'[k].present => cache'[k].stale]_vars

\* C12: after a successful create, the cache entry of the new proposal shows
\* status "Draft" and the id the registry assigned to it.
C12_NewEntryIsDraftWithAssignedId ==
    (m.kind = "create" /\ pc = "idle" /\ result.status = "success") =>
        /\ cache[K_qci(registry.count)].present
        /\ cache[K_qci(registry.count)].data.qciNumber = registry.count
        /\ "status" \in DOMAIN cache[K_qci(registry.count)].data
        /\ cache[K_qci(registry.count)].data.status = "Draft"

\* the required fields of a proposal's content are filled in
RequiredPresent(content) == content.title # "" /\ content.chain # ""

\* C13: a create or update whose content lacks a required field fails with a
\* validation error before the hashing stage and never invokes the on-chain
\* call.
C13_MissingFieldNeverReachesChain ==
    (IsCreateOrUpdate /\ ~RequiredPresent(m.content)) =>
        /\ At("calculateCID") = {}
        /\ writeCalls = <<>>
        /\ pc = "idle" => (result.status = "error" /\ result.stage = "validation")

\* C14: for the groups g the editor builds from its transactions, extracting
\* the document the editor serialised g into gives transactionGroups equal to
\* g: same groups, order, multisig keys and transactions.
C14_EmbedExtractRoundTrip ==
    (pc = "extracted" /\ m.kind = "submit") => result.transactionGroups = m.groups

\* the array of the json block of the document at hand, and what the
\* detection has to find in it
BlockIsArray ==
    /\ m.content.section.present
    /\ m.content.section.text.json
    /\ m.content.section.text.value.kind = "array"
BlockItems == m.content.section.text.value.items
ExpectUnwrap == Len(BlockItems) = 1 /\ BlockItems[1].kind = "array"
AfterUnwrap == IF ExpectUnwrap THEN BlockItems[1].items ELSE BlockItems
ExpectCanonical ==
    /\ Len(AfterUnwrap) > 0
    /\ AfterUnwrap[1].kind = "object"
    /\ {"multisig", "transactions"} \subseteq AfterUnwrap[1].keys

\* C15: extraction unwraps one level exactly when the array has length 1 and
\* its only element is an array; then it takes the array as canonical exactly
\* when its first element has both a multisig and a transactions key;
\* otherwise the whole array is one implicit group with undefined multisig.
C15_DetectionOrder ==
    (pc = "extracted" /\ BlockIsArray) =>
        /\ result.format \in {"none", IF ExpectCanonical THEN "canonical" ELSE "legacy"}
        /\ result.format # "none" => (result.unwrapped <=> ExpectUnwrap)
        /\ result.format = "legacy" =>
              /\ Len(result.transactionGroups) = 1
              /\ result.transactionGroups[1].multisig = UndefinedOwner
              /\ Len(result.transactionGroups[1].transactions) = Len(AfterUnwrap)
        /\ result.format = "canonical" =>
              Len(result.transactionGroups) = Len(AfterUnwrap)
        /\ m.form \in {"flat", "nested"} => result.format = "legacy"
        /\ (m.form \in {"canonical", "nestedCanonical"} /\ ExpectCanonical) =>
              result.format = "canonical"

C15_Witness ==
    /\ pc = "extracted"
    /\ m.form = "nestedCanonical"
    /\ BlockIsArray
    /\ result.unwrapped
    /\ result.format = "canonical"
    /\ Len(result.transactionGroups) = 2

\* C16: a document embedding [t], the double-nested form of a flat array t of
\* transactions, is extracted to the same transactions and transactionGroups
\* as the document embedding t, also when t is empty or has one element.
C16_DoubleNestedEqualsFlat ==
    (pc = "extracted" /\ m.form = "nested") =>
        LET flat == extractTransactionsFromMarkdown(StoredDocument(m.transactions, "flat"))
        IN /\ result.transactions = flat.transactions
           /\ result.transactionGroups = flat.transactionGroups
           /\ result.transactions = m.transactions
           /\ flat.transactions = m.transactions

C16_Witness ==
    /\ pc = "extracted"
    /\ m.form = "nested"
    /\ Len(m.transactions) = 1
    /\ result.unwrapped
    /\ Len(result.transactions) = 1

\* the transaction has no multisig owner
NoOwner(tx) == tx.multisig = UndefinedOwner \/ tx.multisig = <<>>
\* the position in groups g of the group holding the transaction with id i
GroupsOf(g, i) ==
    {k \in 1..Len(g) : \E t \in 1..Len(g[k].transactions) : g[k].transactions[t].id = i}

\* C17: groupTransactionsByMultisig is a stable partition: every transaction
\* is in exactly one group, a group keeps the input order, the transactions
\* without owner form one group with undefined key, no group mixes two
\* owners, and groups are in the order of the first occurrence of their owner.
C17_StablePartition ==
    pc = "grouped" =>
        LET s == m.transactions
            g == result.groups
        IN /\ Len(flatMap(g)) = Len(s)
           /\ \A i \in 1..Len(s) : Cardinality(GroupsOf(g, i)) = 1
           /\ \A k \in 1..Len(g) :
                 /\ Len(g[k].transactions) > 0
                 /\ \A t \in 1..Len(g[k].transactions) :
                       /\ g[k].transactions[t] = s[g[k].transactions[t].id]
                       /\ t > 1 => g[k].transactions[t - 1].id < g[k].transactions[t].id
                       /\ IF NoOwner(g[k].transactions[t])
                          THEN g[k].multisig = UndefinedOwner
                          ELSE g[k].multisig = g[k].transactions[t].multisig
                 /\ k > 1 => g[k - 1].transactions[1].id < g[k].transactions[1].id
           /\ \A i, j \in 1..Len(s) :
                 (NoOwner(s[i]) /\ NoOwner(s[j])) => GroupsOf(g, i) = GroupsOf(g, j)

\* C18: flattening the groups of any sequence of transactions in group order
\* and grouping the result again gives the same groups in the same order.
C18_GroupingIdempotent ==
    pc = "regrouped" => result.regrouped = result.groups

C18_Witness ==
    /\ pc = "regrouped"
    /\ Len(result.groups) >= 2
    /\ flatMap(result.groups) # m.transactions
    /\ result.regrouped = result.groups

\* C19: extractTransactionsFromMarkdown never throws; for a document without
\* Transactions section, with a block that is not valid JSON, or with valid
\* JSON that cannot be normalised, it returns the content unchanged with empty
\* transactions and transactionGroups.
C19_NeverThrowsFallsBack ==
    pc = "extracted" =>
        /\ ~result.threw
        /\ m.form \in {"none", "malformed", "notArray", "numbers", "badGroup", "twoArrays"} =>
              /\ result.contentWithoutTransactions = m.content
              /\ result.transactions = <<>>
              /\ result.transactionGroups = <<>>

C19_Witness ==
    /\ pc = "extracted"
    /\ m.form = "malformed"
    /\ result.transactions = <<>>
    /\ result.contentWithoutTransactions = m.content


\* C20: once the 30 second timeout has fired while a create or update waited
\* for its confirmation, the editor shows the "check if your transaction was
\* successful" warning, and the submission is never shown as failed: the warning
\* is not replaced by a failure message.
C20_TimeoutWarnsNeverFails ==
    editor.timedOutInWait => editor.error = TxtOperationTimedOut


\* C21: a failed create or update leaves the form fields of the editor (title,
\* chain, implementor, content, transactions) unchanged: the steps of the
\* operation do not touch the editor, and the step that handles the failure
\* changes only the error message and the saving flag.
C21_FailureKeepsForm ==
    [][/\ (pc # "idle" /\ pc' # pc) => editor' = editor
       /\ (editor.awaiting /\ ~editor'.awaiting /\ result.status = "error")
            => /\ editor'.form = editor.form
               /\ editor'.success = editor.success
               /\ editor'.navigated = editor.navigated]_vars
\* a submission of an edited form has failed and the form is still as entered
C21_Witness ==
    /\ ~editor.awaiting
    /\ result.status = "error"
    /\ m.kind \in {"create", "update"}
    /\ editor.error = result.error
    /\ ~editor.saving
    /\ editor.form \in FormStates
    /\ editor.form.transactions # <<>>
    /\ qciContent(editor.form) = m.content


\* C22: a failed ABI fetch is retried at most 2 times, the delay before retry
\* i (counted from 0) is min(1000 * 2^i, 10000) ms, and a failure caused by a
\* not-verified source, an invalid address, a cancellation or a timeout is
\* never followed by a retry.
C22_RetryPolicy ==
    m.kind = "abi" =>
        /\ m.failureCount <= 2
        /\ Len(m.delays) = m.failureCount
        /\ \A i \in 1..Len(m.delays) : m.delays[i] = Min(1000 * 2 ^ (i - 1), 10000)
        /\ \A i \in 1..Len(m.causes) :
              m.causes[i] \in NonRetryableCauses => (i = Len(m.causes) /\ pc = "idle")

\* C25: a request of useContractABI that has not completed 15 seconds after it
\* started is aborted, with or without a signal in the query function context,
\* and the timer is cleared when the request completes earlier.
C25_AbortedAfter15Seconds ==
    m.kind = "abi" =>
        /\ (pc = "a_fetch" /\ m.elapsed15) => CombinedSignalAborted(m)
        /\ (pc \in {"idle", "a_queryFn"} /\ m.causes # <<>>) => m.timer # "armed"


\* the multisig keys of groups and the transactions of each, in order
GroupShape(groups) ==
    [g \in 1..Len(groups) |->
        [multisig |-> groups[g].multisig,
         ids |-> [t \in 1..Len(groups[g].transactions) |-> groups[g].transactions[t].id]]]

\* C23: for every embedded transactions JSON, extractTransactionsFromMarkdown,
\* the initialisation of the editor and the TransactionGroup component produce
\* the same groups: the same multisig keys with the same transactions in the
\* same order.
C23_ConsumersAgree ==
    pc = "consumed" =>
        /\ GroupShape(result.parser) = GroupShape(result.viewer)
        /\ GroupShape(result.parser) = GroupShape(result.editor)


CachedStatus(c, k, q) ==
    IF c[k].present
    THEN {ListOf(c[k])[i].status : i \in {j \in DOMAIN ListOf(c[k]) : ListOf(c[k])[j].qciNumber = q}}
    ELSE {}

\* C27: when status changes on different proposals overlap and one fails, its
\* rollback leaves the cached status of the other proposal as the other
\* operation set it: the rollback step of one mutation does not change, in any
\* cached list, the status of the proposal of another mutation that is pending
\* or has succeeded.
C27_RollbackKeepsOtherPatch ==
    [][\A o \in Mutations :
          (pc[o] = "onError" /\ pc'[o] = "onSettled") =>
             \A p \in Mutations \ {o} :
                (pc[p] \in {"pending", "onSuccess", "onSettled", "done"}
                   /\ result[p].status # "error"
                   /\ m[p].qciNumber # m[o].qciNumber) =>
                     \A k \in ListKeys :
                        CachedStatus(cache', k, m[p].qciNumber)
                           = CachedStatus(cache, k, m[p].qciNumber)]_vars


\* C29: every successful create, update or link has run the cache invalidation
\* of its hook, whatever mutationOptions the caller passed: the hook has called
\* invalidateQueries for ["qcis"] and every cached list is marked stale.
C29_InvalidationAlwaysRuns ==
    (m.kind = "options" /\ pc \in {"o_onSettled", "idle"} /\ result.status = "success") =>
        /\ \E i \in 1..Len(effects) :
              effects[i] = [op |-> "invalidateQueries", key |-> <<"qcis">>]
        /\ \A k \in ListKeys : cache[k].present => cache[k].stale


RECURSIVE OneAtATime(_, _)
\* the history after the first n calls when each call completes before the
\* next one starts
OneAtATime(calls, n) ==
    IF n = 0 THEN <<>>
    ELSE MutationFn(calls[n].op, OneAtATime(calls, n - 1), calls[n].contract)

\* no two entries of history are the same contract
NoDuplicates(history) ==
    \A i, j \in 1..Len(history) :
        SameContract(history[i], history[j].address, history[j].chain) => i = j

\* C30: after any sequence of add, remove and clear operations, overlapping or
\* not, the history holds at most 50 entries and no contract twice (same chain,
\* same address up to case), has the most recently added contract that was
\* not removed since first, and contains every added contract that was not
\* removed since.
C30_HistoryInvariants ==
    Pending = {} =>
        LET history == CurrentHistory(cache)
            kept == OneAtATime(m, Len(m))
        IN /\ Len(history) <= MAX_HISTORY_SIZE
           /\ NoDuplicates(history)
           /\ kept # <<>> =>
                 /\ history # <<>>
                 /\ SameContract(history[1], kept[1].address, kept[1].chain)
           /\ \A k \in 1..Len(kept) :
                 \E h \in 1..Len(history) :
                    SameContract(history[h], kept[k].address, kept[k].chain)


\* C26: for every list of transactions of the editor, the index the grouped
\* view passes to edit or delete designates in the editor's flat list the
\* transaction whose button was pressed: that transaction, and no other, is
\* gone after a delete.
C26_ButtonDesignatesItsTransaction ==
    pc = "deleted" =>
        /\ m.transactions[result.globalIndex + 1] = result.pressed
        /\ \A i \in 1..Len(result.transactions) : result.transactions[i] # result.pressed


\* C28: at most one create or update started from one editor is in flight: the
\* submit control is disabled from the start of a submission until its
\* operation has succeeded or failed, also when the 30 second saving timeout
\* fires first.
C28_SubmitDisabledWhileInFlight ==
    (editor.awaiting /\ pc # "idle") => ~SubmitEnabled

====
